---- MODULE Spec2Model ----
(***************************************************************************)
(* Model of the pitch-correction engine of tonal-sync-ai, natural-pitch-   *)
(* shifter variant (frontend/src/hooks/useAudioProcessor.ts, the second    *)
(* useAudioProcessor with NaturalPitchShifterProcessor), and of the        *)
(* component that feeds it its options (TonalSyncPlugin.tsx).              *)
(*                                                                         *)
(* Number representation (JavaScript numbers are doubles; TLC has only     *)
(* integers):                                                              *)
(*   - a frequency handed to findNearestNote is in hundredths of a hertz   *)
(*     (26163 is 261.63 Hz);                                               *)
(*   - a frequency of the scale table is in units of 1/800 Hz, so that     *)
(*     NOTE_FREQUENCIES[note] * 2^(oct - 4) is an integer for oct 1..7;    *)
(*   - 1200 * Math.log2(x) is in thousandths of a cent (Log2Milli);        *)
(*   - a pitch ratio, a mix or a gain is in millionths (One = 1.0).        *)
(***************************************************************************)
EXTENDS Bags, Integers, Sequences, FiniteSets, TLC

VARIABLES
    \* the quantizer on its own (SpecQ)
    qOptions,     \* the options of the render
    qFreq,        \* the argument of findNearestNote
    qTable,       \* what getScaleFrequencies returned
    qResult,      \* what findNearestNote returned
    qPc,          \* "call" before the call, "done" after
    \* the hook useAudioProcessor and its caller (Spec)
    options,               \* the options of the latest render of TonalSyncPlugin
    isActive,              \* state.isActive
    isBypassed,            \* state.isBypassed
    audioContextRef,       \* 0 (null) or the number of the AudioContext
    streamRef,             \* 0 (null) or the number of the MediaStream
    analyserInputRef,      \* 0 (null) or the context of the node; sourceRef,
                           \* analyserOutputRef, inputGainRef and highPassRef
                           \* are set and cleared with it
    pitchShifterRef,       \* 0 (null) or the context of the worklet node
    outputGainRef,         \* 0 (null) or the context of the node; makeupGainRef
                           \* is set and cleared with it
    animationFrameRef,     \* FALSE (null) or TRUE (a handle)
    frames,                \* the processAudio callbacks requestAnimationFrame holds
    isBypassedRef,
    correctionModeRef,
    currentPitchRatioRef,
    activeNote,            \* activeNotesRef.current[0], "" when the list is empty
    lastNoteRef,
    liveTracks,            \* the streams whose tracks were not stopped
    openContexts,          \* the contexts that were not closed
    startPc,               \* where the start() call in flight is suspended
    startOptions,          \* the options in the closure of that start() call
    startCtx,              \* its local const ctx
    stopInStart,           \* stop() ran while the latest start() call was
                           \* suspended at an await
    port,                  \* messages posted to pitchShifterRef, not yet delivered
    wTargetRatio,          \* the worklet's targetRatio
    wWetMix,               \* the worklet's wetMix
    wOutputGain,           \* the worklet's outputGain
    lastRun,               \* what the latest run of processAudio read and computed
    posted,                \* the messages the latest step posted
    op,                    \* the operation of the latest step
    bypassAsked,           \* the argument of the latest setBypass call
    blocks, starts, edits, \* how many frames ran, start() calls, option changes
    \* the correction controller of one processAudio loop on its own (SpecC)
    cOptions,     \* the options in the closure of the loop
    cRatio,       \* currentPitchRatioRef.current
    cRun,         \* what the latest run read and computed
    cRuns,        \* how many runs the loop made
    \* NaturalPitchShifterProcessor on the audio thread and detectPitch on an
    \* analysis window (SpecW); targetRatio, wetMix and outputGain are
    \* wTargetRatio, wWetMix and wOutputGain above
    wPitchRatio,      \* this.pitchRatio
    inputBuffer,      \* this.inputBuffer, one value for each BlockSize slots
    inputWritePos,    \* this.inputWritePos
    grainReadPos,     \* this.grainReadPos, each [i: whole part, f: millionths]
    grainPhase,       \* this.grainPhase, each in 1/GrainSize
    wOutput,          \* outputs[0][0] after the latest process call
    wCall,            \* what the latest process call was given
    wCalls, wMsgs,    \* how many process calls and port messages
    dWindow,          \* the buffer handed to detectPitch
    dPitch,           \* what detectPitch returned
    dPc,              \* "idle" before the call, "done" after
    dTone,            \* the tone the window holds: [step, phase], NoTone
                      \* when it holds none
    dLag,             \* the lag the search of detectPitch ended with
    \* one processAudio loop fed a steady tone (SpecB); its options, ratio and
    \* runs are cOptions, cRatio, cRun and cRuns above
    tPitch,           \* what detectPitch returns on every frame
    tMode,            \* correctionModeRef.current
    tBypassed,        \* isBypassedRef.current
    tTrajectory,      \* the ratios of the same loop with bypass never enabled,
                      \* from the ratio held when the tone began
    tCorrected,       \* how many frames ran with bypass off since the tone began
    tToggles, tTones, \* how many setBypass calls and changes of the tone
    \* PitchShifterProcessor, the worklet of the first variant (SpecV)
    vPitchRatio,      \* this.pitchRatio
    vBuffer,          \* this.buffer
    vBufferIndex,     \* this.bufferIndex
    vPhase,           \* this.phase, in millionths of a slot
    vOutput,          \* outputs[0][0] after the latest process call
    vCall,            \* what the latest process call was given
    vCalls, vMsgs,    \* how many process calls and port messages
    \* the pitch history of processAudio (SpecH)
    pitchHistoryRef,  \* pitchHistoryRef.current
    clock,            \* what Date.now() returned last, in ms
    pRun,             \* what the latest run read and dropped
    pRuns, pJumps,    \* how many runs and how many adjustments of the clock
    pPeriod,          \* the time from one animation frame to the next, in ms
    \* two processAudio loops given the same inputs (SpecTwin)
    twinOptions,      \* the options of the closure of both loops
    twinHistory,      \* pitchHistoryRef.current of each loop
    twinRatio,        \* currentPitchRatioRef.current of each loop
    twinNotes,        \* activeNotesRef.current[0] and lastNoteRef.current
    twinPosted,       \* what the latest run of each loop posted
    twinClock,        \* what Date.now() returned last, in ms
    twinRuns,         \* how many runs each loop made
    \* the monitor controls of the active hook (SpecGain)
    gMonitoring,      \* isMonitoringRef.current
    gBypassed,        \* isBypassedRef.current
    gVolume,          \* monitorVolumeRef.current, in millionths
    gTarget,          \* the target of outputGainRef.current.gain, in millionths
    gState,           \* isMonitoring, isBypassed and monitorVolume of the state
    gPosted,          \* what the latest call posted to the pitch shifter
    gSeen,            \* the state and the gain target after each call so far
    gCalls,           \* how many setter calls were made
    \* the positions NaturalPitchShifterProcessor uses (SpecRing)
    ringAbs,          \* the read position of each grain counted in samples
                      \* since construction, and whether the grain was reset
    ringUse,          \* the lowest and highest index used so far
    ringMsgs          \* how many port messages arrived

qVars == <<qOptions, qFreq, qTable, qResult, qPc>>

refVars == <<audioContextRef, streamRef, analyserInputRef, pitchShifterRef,
             outputGainRef, liveTracks, openContexts>>

loopVars == <<animationFrameRef, frames>>

ctlVars == <<isBypassedRef, correctionModeRef, currentPitchRatioRef,
             activeNote, lastNoteRef>>

startVars == <<startPc, startOptions, startCtx, stopInStart>>

workletVars == <<port, wTargetRatio, wWetMix, wOutputGain>>

hVars == <<options, isActive, isBypassed, refVars, loopVars, ctlVars,
           startVars, workletVars, lastRun, posted, op, bypassAsked,
           blocks, starts, edits>>

cVars == <<cOptions, cRatio, cRun, cRuns>>

engineVars == <<wPitchRatio, inputBuffer, inputWritePos, grainReadPos,
               grainPhase, wOutput, wCall, wCalls, wMsgs>>

dVars == <<dWindow, dPitch, dPc, dTone, dLag>>

tVars == <<tPitch, tMode, tBypassed, tTrajectory, tCorrected, tToggles,
           tTones>>

vVars == <<vPitchRatio, vBuffer, vBufferIndex, vPhase, vOutput, vCall,
           vCalls, vMsgs>>

twinVars == <<twinOptions, twinHistory, twinRatio, twinNotes, twinPosted,
             twinClock, twinRuns>>

gainVars == <<gMonitoring, gBypassed, gVolume, gTarget, gState, gPosted,
             gSeen, gCalls>>

ringVars == <<ringAbs, ringUse, ringMsgs>>

pVars == <<pitchHistoryRef, clock, pRun, pRuns, pJumps, pPeriod, twinVars,
           gainVars, ringVars>>

\* the variables of the three parts above
restVars == <<tVars, vVars, pVars>>

\* the variables of the specifications of one part on its own
soloVars == <<qVars, cVars, engineVars, dVars, restVars>>

vars == <<soloVars, hVars>>

-----------------------------------------------------------------------------
(* Numbers *)

One == 1000000

\* NaN, as produced by undefined * number; a value no quantity of the model
\* takes, never used in arithmetic below
NaN == -2000000000

\* Infinity, the initial nearest.cents
Infinity == 1000000000

Abs(x) == IF x < 0 THEN -x ELSE x

\* the JavaScript remainder a % b for b > 0: the sign of the dividend
JsRem(a, b) == IF a < 0 THEN -((-a) % b) ELSE a % b

\* Math.round of a value in thousandths: floor(x + 0.5), in whole units
MathRound(x) == (x + 500) \div 1000

\* a * b for a and b in millionths, rounded to the nearest millionth, split
\* to stay within 32 bits (|a| <= 2 * One, 0 <= b <= 2 * One)
Mul(a, b) ==
    LET a1 == a \div 1000
        a0 == a % 1000
    IN  (a1 * b + (a0 * b + 500000) \div 1000) \div 1000

\* n / d in millionths (truncated), by long division to stay within 32 bits
Ratio(n, d) ==
    LET q  == n \div d
        r0 == n % d
        d1 == (r0 * 1000) \div d
        r1 == (r0 * 1000) % d
        d2 == (r1 * 1000) \div d
    IN  q * One + d1 * 1000 + d2

\* 1200 * Math.log2(x / 100) in thousandths of a cent, rounded to nearest,
\* tabulated at the frequencies the model uses (x in hundredths of a hertz)
Log2Milli ==
       3000 :> 5888269
    @@ 5999 :> 7087980
    @@ 6000 :> 7088269
    @@ 6001 :> 7088557
    @@ 8241 :> 7637697
    @@ 11000 :> 8137632
    @@ 13081 :> 8437595
    @@ 22000 :> 9337632
    @@ 26163 :> 9637661
    @@ 26929 :> 9687620
    @@ 26930 :> 9687685
    @@ 27000 :> 9692179
    @@ 27718 :> 9737615
    @@ 29366 :> 9837604
    @@ 31113 :> 9937648
    @@ 32963 :> 10037644
    @@ 34923 :> 10137640
    @@ 36999 :> 10237611
    @@ 39200 :> 10337652
    @@ 41530 :> 10437612
    @@ 44000 :> 10537632
    @@ 45000 :> 10576537
    @@ 45290 :> 10587658
    @@ 46616 :> 10637618
    @@ 49388 :> 10737620
    @@ 88000 :> 11737632
    @@ 100000 :> 11958941
    @@ 149999 :> 12660885
    @@ 150000 :> 12660896
    @@ 150001 :> 12660908
    @@ 200000 :> 13158941

-----------------------------------------------------------------------------
(* Scale quantizer *)

NOTE_FREQUENCIES ==
       "C" :> 26163 @@ "C#" :> 27718 @@ "D" :> 29366 @@ "D#" :> 31113
    @@ "E" :> 32963 @@ "F" :> 34923 @@ "F#" :> 36999 @@ "G" :> 39200
    @@ "G#" :> 41530 @@ "A" :> 44000 @@ "A#" :> 46616 @@ "B" :> 49388

NOTES == <<"C", "C#", "D", "D#", "E", "F", "F#", "G", "G#", "A", "A#", "B">>

SCALE_PATTERNS ==
       "Major"      :> <<0, 2, 4, 5, 7, 9, 11>>
    @@ "Minor"      :> <<0, 2, 3, 5, 7, 8, 10>>
    @@ "Chromatic"  :> <<0, 1, 2, 3, 4, 5, 6, 7, 8, 9, 10, 11>>
    @@ "Pentatonic" :> <<0, 2, 4, 7, 9>>
    @@ "Blues"      :> <<0, 3, 5, 6, 7, 10>>
    @@ "Dorian"     :> <<0, 2, 3, 5, 7, 9, 10>>
    @@ "Mixolydian" :> <<0, 2, 4, 5, 7, 9, 10>>

\* NOTES.indexOf(key): the 0-based index, -1 when absent
IndexOf(key) ==
    IF \E i \in 1..Len(NOTES) : NOTES[i] = key
    THEN (CHOOSE i \in 1..Len(NOTES) : NOTES[i] = key) - 1
    ELSE -1

\* NOTES[i] for a 0-based i: undefined outside the array
NoteAt(i) == IF i >= 0 /\ i < Len(NOTES) THEN NOTES[i + 1] ELSE "undefined"

getScaleNotes(opts) ==
    LET keyIdx  == IndexOf(opts.selectedKey)
        pattern == IF opts.selectedScale \in DOMAIN SCALE_PATTERNS
                   THEN SCALE_PATTERNS[opts.selectedScale]
                   ELSE SCALE_PATTERNS["Chromatic"]
    IN  [i \in 1..Len(pattern) |-> NoteAt(JsRem(keyIdx + pattern[i], 12))]

RECURSIVE Pow2(_)
Pow2(n) == IF n = 0 THEN 1 ELSE 2 * Pow2(n - 1)

\* one entry of the table: freq is NOTE_FREQUENCIES[note] * 2^(oct - 4) in
\* units of 1/800 Hz, NaN for the undefined note
ScaleEntry(note, oct) ==
    [note |-> note,
     freq |-> IF note \in DOMAIN NOTE_FREQUENCIES
              THEN NOTE_FREQUENCIES[note] * Pow2(oct - 1) ELSE NaN,
     octave |-> oct]

\* the table before it is sorted: octaves 1..7, the scale's notes in each
UnsortedFrequencies(opts) ==
    LET notes == getScaleNotes(opts)
        n     == Len(notes)
    IN  [k \in 1..(7 * n) |->
            ScaleEntry(notes[((k - 1) % n) + 1], ((k - 1) \div n) + 1)]

\* the comparator (a, b) => a.freq - b.freq, for numbers: a before b
FreqBefore(a, b) == a.freq < b.freq

\* Array.prototype.sort with that comparator
SortAsc(s) == SortSeq(s, FreqBefore)

IsNaNEntry(e) == e.freq = NaN
IsNumEntry(e) == e.freq # NaN

\* freqs.sort((a, b) => a.freq - b.freq).  With numbers only the result is
\* the ascending table.  With an undefined note the comparator returns NaN
\* for its entries, which leaves the order to the engine: the entries of the
\* defined notes, ascending, with the NaN entries where they were, all
\* first, or all last.
getScaleFrequencies(opts) ==
    LET freqs == UnsortedFrequencies(opts)
        nums  == SortAsc(SelectSeq(freqs, IsNumEntry))
        nans  == SelectSeq(freqs, IsNaNEntry)
    IN  IF Len(nans) = 0 THEN {nums}
        ELSE {freqs, nans \o nums, nums \o nans}

\* 1200 * Math.log2(freq / f) in thousandths of a cent, f a table entry
CentsMilli(inFreq, e) ==
    Log2Milli[inFreq]
      - (Log2Milli[NOTE_FREQUENCIES[e.note]] + (e.octave - 4) * 1200000)

\* Math.abs(cents) < Math.abs(nearest.cents), nearest.cents in whole cents
Closer(centsMilli, nearestCents) ==
    nearestCents = Infinity \/ Abs(centsMilli) < Abs(nearestCents) * 1000

\* NearestStep with the cents truncated (Math.floor) instead of rounded
NearestStepFloor(inFreq, nearest, e) ==
    IF e.freq # NaN /\ Closer(CentsMilli(inFreq, e), nearest.cents)
    THEN [note |-> e.note, freq |-> e.freq,
          cents |-> CentsMilli(inFreq, e) \div 1000, octave |-> e.octave]
    ELSE nearest

\* one iteration of the loop of findNearestNote: the candidate e replaces
\* nearest when its cents are closer than the cents nearest holds
NearestStep(inFreq, nearest, e) ==
    IF e.freq # NaN /\ Closer(CentsMilli(inFreq, e), nearest.cents)
    THEN [note |-> e.note, freq |-> e.freq,
          cents |-> MathRound(CentsMilli(inFreq, e)), octave |-> e.octave]
    ELSE nearest

\* the loop of findNearestNote over scaleFreqs[lo..hi], in this order,
\* starting from nearest.  The range is split in halves and the first half
\* is evaluated (by the test on it, which never fails: NearestStep selects
\* no NaN entry) before the second, to keep TLC's evaluation shallow.
RECURSIVE NearestIn(_, _, _, _, _)
NearestIn(inFreq, scaleFreqs, lo, hi, nearest) ==
    IF lo > hi THEN nearest
    ELSE IF lo = hi THEN NearestStep(inFreq, nearest, scaleFreqs[lo])
    ELSE LET mid   == (lo + hi) \div 2
             first == NearestIn(inFreq, scaleFreqs, lo, mid, nearest)
         IN  IF first.freq = NaN THEN first
             ELSE NearestIn(inFreq, scaleFreqs, mid + 1, hi, first)

NoTarget == [note |-> "-", freq |-> 0, cents |-> 0, octave |-> 0,
             pitchRatio |-> One]

\* findNearestNote without the lower limit of 60 Hz in its guard
findNearestNoteNoLowerLimit(inFreq, scaleFreqs) ==
    IF inFreq <= 0 \/ inFreq > 150000 THEN NoTarget
    ELSE LET nearest == NearestIn(inFreq, scaleFreqs, 1, Len(scaleFreqs),
                [note |-> "", freq |-> 0, cents |-> Infinity, octave |-> 0])
         IN  [note |-> nearest.note, freq |-> nearest.freq,
              cents |-> nearest.cents, octave |-> nearest.octave,
              pitchRatio |-> Ratio(nearest.freq, inFreq * 8)]

\* inFreq (the source's freq) in hundredths of a hertz, scaleFreqs the table
\* the call obtained from getScaleFrequencies
findNearestNote(inFreq, scaleFreqs) ==
    IF inFreq <= 0 \/ inFreq < 6000 \/ inFreq > 150000 THEN NoTarget
    ELSE LET nearest == NearestIn(inFreq, scaleFreqs, 1, Len(scaleFreqs),
                [note |-> "", freq |-> 0, cents |-> Infinity, octave |-> 0])
         IN  [note |-> nearest.note, freq |-> nearest.freq,
              cents |-> nearest.cents, octave |-> nearest.octave,
              pitchRatio |-> Ratio(nearest.freq, inFreq * 8)]

-----------------------------------------------------------------------------
(* Correction controller: the body of processAudio.  options.retuneSpeed,  *)
(* options.humanize and options.mix are the integers 0..100 of the knobs.  *)

\* ClassicStrength that falls as the strength of Modern does
ClassicStrengthWeak(retuneSpeed) == One - retuneSpeed * 4000

\* Classic: strength = 1.0 - retuneNorm * 0.1, retuneNorm = retuneSpeed / 100
ClassicStrength(retuneSpeed) == One - retuneSpeed * 1000

\* ClassicSmooth with the smoothing of a slow glide
ClassicSmoothSlow(retuneSpeed) == 800000 + retuneSpeed * 800

\* Classic: smooth = 0.08 + retuneNorm * 0.08
ClassicSmooth(retuneSpeed) == 80000 + retuneSpeed * 800

\* ModernThreshold that falls as retuneSpeed grows
ModernThresholdFalling(retuneSpeed) == 4300 - retuneSpeed * 35

\* Modern: threshold = 8 + retuneNorm * 35, in hundredths of a cent
ModernThreshold(retuneSpeed) == 800 + retuneSpeed * 35

\* Modern: strength = 1.0 - retuneNorm * 0.4
ModernStrength(retuneSpeed) == One - retuneSpeed * 4000

\* ModernSmooth as low as the smoothing of Classic
ModernSmoothFast(retuneSpeed) == 100000 + retuneSpeed * 300

\* Modern: smooth = 0.3 + retuneNorm * 0.3
ModernSmooth(retuneSpeed) == 300000 + retuneSpeed * 3000

\* finalRatio of the correcting branch
FinalRatio(mode, retuneSpeed, cents, pitchRatio) ==
    IF mode = "classic"
    THEN One + Mul(pitchRatio - One, ClassicStrength(retuneSpeed))
    ELSE IF Abs(cents) * 100 > ModernThreshold(retuneSpeed)
         THEN One + Mul(pitchRatio - One, ModernStrength(retuneSpeed))
         ELSE One

\* smooth of the correcting branch
SmoothOf(mode, retuneSpeed) ==
    IF mode = "classic" THEN ClassicSmooth(retuneSpeed)
    ELSE ModernSmooth(retuneSpeed)

\* SmoothStep that adds the whole difference scaled by 1 + smooth
SmoothStepOvershoot(current, finalRatio, smooth) ==
    current + Mul(finalRatio - current, One + smooth)

\* currentPitchRatioRef.current += (finalRatio - current) * (1 - smooth)
SmoothStep(current, finalRatio, smooth) ==
    current + Mul(finalRatio - current, One - smooth)

\* (Math.random() - 0.5) * 0.004 * humanize, humanize = options.humanize / 100
Jitter(random, humanize) == ((random - 500000) * humanize * 4) \div 100000

\* Corrects without the test of the target
CorrectsWithoutTarget(detectedPitch, targetFreq, bypassed) ==
    detectedPitch > 0 /\ ~bypassed

\* Corrects without the test of isBypassedRef
CorrectsIgnoringBypass(detectedPitch, targetFreq, bypassed) ==
    detectedPitch > 0 /\ targetFreq > 0

\* detectedPitch > 0 && targetFreq > 0 && !isBypassedRef.current
Corrects(detectedPitch, targetFreq, bypassed) ==
    detectedPitch > 0 /\ targetFreq > 0 /\ ~bypassed

\* the message of the correcting branch; TonalSyncPlugin passes no vibrato
\* options, so the defaults after || are sent
CorrectionMessage(ratio, opts) ==
    [pitchRatio |-> ratio, wetMix |-> opts.mix * 10000,
     vibratoDepth |-> 0, vibratoRate |-> 5500000,
     vibratoDelay |-> 300000, vibratoOnset |-> 100000,
     outputGain |-> 2 * One]

\* IdleMessage that sends the mix also while bypassed
IdleMessageKeepingMix(opts, bypassed) ==
    [pitchRatio |-> One, wetMix |-> opts.mix * 10000, outputGain |-> 2 * One]

\* the message of the else branch
IdleMessage(opts, bypassed) ==
    [pitchRatio |-> One,
     wetMix |-> IF bypassed THEN 0 ELSE opts.mix * 10000,
     outputGain |-> 2 * One]

NoteStartMessage == [noteStart |-> TRUE]

\* the message of setBypass
BypassMessage(bypassed, ratio, mix) ==
    [pitchRatio |-> IF bypassed THEN One ELSE ratio,
     wetMix |-> IF bypassed THEN 0 ELSE mix * 10000]

\* One run of processAudio past its guard, in the closure with options opts
\* and scale table scaleFreqs: detectedPitch is what detectPitch returned
\* (hundredths of a hertz), random what Math.random() returned (millionths);
\* bypassed, mode, current, active, lastNote are the refs it reads, and
\* hasShifter tells whether pitchShifterRef.current is set.  The result holds
\* the refs it writes, the messages it posts and the values it computed.
RunProcessAudio(opts, scaleFreqs, detectedPitch, random, bypassed, mode, current, active, lastNote, hasShifter) ==
    LET near       == findNearestNote(detectedPitch, scaleFreqs)
        tracks     == near.note # "-" /\ near.note # active
        noteStart  == tracks /\ near.note # lastNote /\ hasShifter
        corrects   == Corrects(detectedPitch, near.freq, bypassed)
        finalRatio == IF corrects
                      THEN FinalRatio(mode, opts.retuneSpeed, near.cents,
                                      near.pitchRatio)
                      ELSE One
        smooth     == SmoothOf(mode, opts.retuneSpeed)
        smoothed   == IF corrects
                      THEN SmoothStep(current, finalRatio, smooth)
                      ELSE current
        ratio      == IF corrects
                      THEN smoothed + Jitter(random, opts.humanize)
                      ELSE current
        message    == IF corrects THEN CorrectionMessage(ratio, opts)
                      ELSE IdleMessage(opts, bypassed)
    IN  [ratio      |-> ratio,
         activeNote |-> IF tracks THEN near.note ELSE active,
         lastNote   |-> IF noteStart THEN near.note ELSE lastNote,
         msgs       |-> (IF noteStart THEN <<NoteStartMessage>> ELSE <<>>)
                          \o (IF hasShifter THEN <<message>> ELSE <<>>),
         run        |-> [ran |-> TRUE, by |-> "frame", used |-> opts,
                         props |-> opts, launch |-> opts,
                         detectedPitch |-> detectedPitch,
                         note |-> near.note, targetFreq |-> near.freq,
                         cents |-> near.cents, pitchRatio |-> near.pitchRatio,
                         corrects |-> corrects, bypassed |-> bypassed,
                         mode |-> mode, previous |-> current,
                         finalRatio |-> finalRatio, smooth |-> smooth,
                         smoothed |-> smoothed,
                         posted |-> (IF noteStart THEN <<NoteStartMessage>>
                                     ELSE <<>>)
                                      \o (IF hasShifter THEN <<message>>
                                          ELSE <<>>),
                         correctedPitch |-> IF corrects
                                            THEN Mul(ratio, detectedPitch)
                                            ELSE detectedPitch]]

\* the useState defaults of TonalSyncPlugin
DefaultOptions ==
    [retuneSpeed |-> 0, humanize |-> 15, mix |-> 100,
     selectedKey |-> "C", selectedScale |-> "Major"]

\* lastRun before any run
NoRun ==
    [ran |-> FALSE, by |-> "", used |-> <<>>, props |-> <<>>,
     launch |-> <<>>, detectedPitch |-> 0,
     note |-> "-", targetFreq |-> 0, cents |-> 0, pitchRatio |-> One,
     corrects |-> FALSE, bypassed |-> FALSE, mode |-> "modern",
     previous |-> One, finalRatio |-> One, smooth |-> 0, smoothed |-> One,
     posted |-> <<>>, correctedPitch |-> 0]

\* the worklet's port.onmessage, for the fields the model keeps
\* Math.max(lo, Math.min(hi, x)): NaN when x is NaN
Clamp(lo, hi, x) ==
    IF x = NaN THEN NaN ELSE IF x < lo THEN lo ELSE IF x > hi THEN hi ELSE x

OnMessageTargetRatio(targetRatio, m) ==
    IF "pitchRatio" \in DOMAIN m THEN Clamp(One \div 2, 2 * One, m.pitchRatio)
    ELSE targetRatio

OnMessageWetMix(wetMix, m) ==
    IF "wetMix" \in DOMAIN m THEN Clamp(0, One, m.wetMix) ELSE wetMix

OnMessageOutputGain(outputGain, m) ==
    IF "outputGain" \in DOMAIN m THEN m.outputGain ELSE outputGain

-----------------------------------------------------------------------------
(* NaturalPitchShifterProcessor.process, the audio thread                  *)
(*                                                                         *)
(* A sample is in millionths of full scale.  A read position is            *)
(* [i |-> whole part, f |-> fraction in millionths]; a grain phase is in   *)
(* 1/GrainSize, which the increments of 1/grainSize keep exact.  The       *)
(* rounding of grainReadPos and window to 32-bit floats is not modelled.   *)
(* The blocks handed to process hold BlockSize equal samples, so that the  *)
(* ring buffer is kept as one value for each run of BlockSize slots.       *)
(* TonalSyncPlugin passes no vibrato option: every message carries         *)
(* vibratoDepth 0, vibratoMod stays 0 and effectiveRatio is pitchRatio.    *)

GrainSize == 2048

NumGrains == 4

\* this.inputBuffer.length
BufSize == GrainSize * 4

\* inChannel.length, the render quantum of the Web Audio API
BlockSize == 128

\* the Hann window 0.5 * (1 - cos(2 pi i / grainSize)), in millionths
window ==
 <<
    0, 2, 9, 21, 38, 59, 85, 115, 151, 191,
    235, 285, 339, 398, 461, 529, 602, 680, 762, 849,
    941, 1037, 1138, 1244, 1355, 1470, 1590, 1714, 1844, 1978,
    2116, 2260, 2408, 2560, 2718, 2880, 3047, 3218, 3394, 3575,
    3760, 3950, 4145, 4345, 4549, 4757, 4971, 5189, 5412, 5639,
    5871, 6108, 6349, 6595, 6846, 7101, 7361, 7626, 7895, 8169,
    8447, 8730, 9018, 9310, 9607, 9909, 10215, 10526, 10841, 11161,
    11486, 11815, 12149, 12487, 12830, 13178, 13530, 13887, 14248, 14614,
    14984, 15359, 15739, 16123, 16512, 16905, 17303, 17705, 18112, 18523,
    18939, 19360, 19785, 20214, 20648, 21087, 21530, 21977, 22429, 22886,
    23347, 23812, 24282, 24757, 25236, 25719, 26207, 26700, 27196, 27698,
    28203, 28713, 29228, 29747, 30270, 30798, 31330, 31867, 32408, 32954,
    33504, 34058, 34617, 35180, 35747, 36319, 36895, 37475, 38060, 38649,
    39243, 39841, 40443, 41050, 41660, 42276, 42895, 43519, 44147, 44779,
    45416, 46057, 46702, 47352, 48005, 48663, 49326, 49992, 50663, 51338,
    52017, 52700, 53388, 54080, 54776, 55476, 56180, 56889, 57601, 58318,
    59039, 59765, 60494, 61227, 61965, 62707, 63453, 64202, 64957, 65715,
    66477, 67243, 68014, 68788, 69567, 70349, 71136, 71926, 72721, 73520,
    74322, 75129, 75940, 76755, 77573, 78396, 79223, 80053, 80888, 81726,
    82569, 83415, 84265, 85119, 85977, 86839, 87705, 88575, 89449, 90326,
    91208, 92093, 92982, 93875, 94771, 95672, 96576, 97484, 98396, 99312,
    100231, 101155, 102082, 103012, 103947, 104885, 105827, 106772, 107722, 108675,
    109631, 110592, 111556, 112523, 113495, 114470, 115448, 116431, 117416, 118406,
    119399, 120395, 121396, 122399, 123407, 124417, 125432, 126450, 127471, 128496,
    129524, 130556, 131592, 132631, 133673, 134719, 135768, 136820, 137876, 138936,
    139999, 141065, 142135, 143208, 144284, 145364, 146447, 147533, 148623, 149716,
    150812, 151911, 153014, 154120, 155230, 156342, 157458, 158577, 159700, 160825,
    161954, 163085, 164221, 165359, 166500, 167645, 168792, 169943, 171097, 172254,
    173414, 174577, 175743, 176912, 178084, 179259, 180438, 181619, 182803, 183991,
    185181, 186374, 187570, 188769, 189971, 191176, 192384, 193595, 194809, 196025,
    197244, 198467, 199692, 200920, 202150, 203384, 204620, 205859, 207101, 208346,
    209593, 210843, 212096, 213351, 214610, 215871, 217134, 218400, 219669, 220941,
    222215, 223492, 224771, 226053, 227338, 228625, 229914, 231206, 232501, 233798,
    235098, 236400, 237705, 239012, 240322, 241634, 242949, 244266, 245585, 246907,
    248231, 249557, 250886, 252217, 253551, 254887, 256225, 257565, 258908, 260253,
    261600, 262950, 264302, 265656, 267012, 268370, 269731, 271093, 272458, 273825,
    275194, 276566, 277939, 279314, 280692, 282071, 283453, 284837, 286222, 287610,
    289000, 290392, 291785, 293181, 294578, 295978, 297379, 298783, 300188, 301595,
    303004, 304415, 305827, 307242, 308658, 310076, 311496, 312918, 314341, 315767,
    317194, 318622, 320052, 321485, 322918, 324354, 325791, 327229, 328670, 330112,
    331555, 333000, 334447, 335895, 337345, 338796, 340249, 341703, 343159, 344616,
    346075, 347535, 348997, 350460, 351925, 353390, 354858, 356326, 357796, 359268,
    360740, 362214, 363689, 365166, 366644, 368123, 369603, 371084, 372567, 374051,
    375536, 377022, 378510, 379998, 381488, 382979, 384471, 385964, 387458, 388953,
    390449, 391947, 393445, 394944, 396444, 397946, 399448, 400951, 402455, 403960,
    405466, 406972, 408480, 409989, 411498, 413008, 414519, 416031, 417543, 419057,
    420571, 422086, 423601, 425118, 426635, 428152, 429671, 431190, 432710, 434230,
    435751, 437273, 438795, 440317, 441841, 443365, 444889, 446414, 447939, 449465,
    450991, 452518, 454046, 455573, 457101, 458630, 460159, 461688, 463218, 464748,
    466278, 467809, 469340, 470871, 472402, 473934, 475466, 476998, 478531, 480064,
    481596, 483129, 484663, 486196, 487729, 489263, 490797, 492330, 493864, 495398,
    496932, 498466, 500000, 501534, 503068, 504602, 506136, 507670, 509203, 510737,
    512271, 513804, 515337, 516871, 518404, 519936, 521469, 523002, 524534, 526066,
    527598, 529129, 530660, 532191, 533722, 535252, 536782, 538312, 539841, 541370,
    542899, 544427, 545954, 547482, 549009, 550535, 552061, 553586, 555111, 556635,
    558159, 559683, 561205, 562727, 564249, 565770, 567290, 568810, 570329, 571848,
    573365, 574882, 576399, 577914, 579429, 580943, 582457, 583969, 585481, 586992,
    588502, 590011, 591520, 593028, 594534, 596040, 597545, 599049, 600552, 602054,
    603556, 605056, 606555, 608053, 609551, 611047, 612542, 614036, 615529, 617021,
    618512, 620002, 621490, 622978, 624464, 625949, 627433, 628916, 630397, 631877,
    633356, 634834, 636311, 637786, 639260, 640732, 642204, 643674, 645142, 646610,
    648075, 649540, 651003, 652465, 653925, 655384, 656841, 658297, 659751, 661204,
    662655, 664105, 665553, 667000, 668445, 669888, 671330, 672771, 674209, 675646,
    677082, 678515, 679948, 681378, 682806, 684233, 685659, 687082, 688504, 689924,
    691342, 692758, 694173, 695585, 696996, 698405, 699812, 701217, 702621, 704022,
    705422, 706819, 708215, 709608, 711000, 712390, 713778, 715163, 716547, 717929,
    719308, 720686, 722061, 723434, 724806, 726175, 727542, 728907, 730269, 731630,
    732988, 734344, 735698, 737050, 738400, 739747, 741092, 742435, 743775, 745113,
    746449, 747783, 749114, 750443, 751769, 753093, 754415, 755734, 757051, 758366,
    759678, 760988, 762295, 763600, 764902, 766202, 767499, 768794, 770086, 771375,
    772662, 773947, 775229, 776508, 777785, 779059, 780331, 781600, 782866, 784129,
    785390, 786649, 787904, 789157, 790407, 791654, 792899, 794141, 795380, 796616,
    797850, 799080, 800308, 801533, 802756, 803975, 805191, 806405, 807616, 808824,
    810029, 811231, 812430, 813626, 814819, 816009, 817197, 818381, 819562, 820741,
    821916, 823088, 824257, 825423, 826586, 827746, 828903, 830057, 831208, 832355,
    833500, 834641, 835779, 836915, 838046, 839175, 840300, 841423, 842542, 843658,
    844770, 845880, 846986, 848089, 849188, 850284, 851377, 852467, 853553, 854636,
    855716, 856792, 857865, 858935, 860001, 861064, 862124, 863180, 864232, 865281,
    866327, 867369, 868408, 869444, 870476, 871504, 872529, 873550, 874568, 875583,
    876593, 877601, 878604, 879605, 880601, 881594, 882584, 883569, 884552, 885530,
    886505, 887477, 888444, 889408, 890369, 891325, 892278, 893228, 894173, 895115,
    896053, 896988, 897918, 898845, 899769, 900688, 901604, 902516, 903424, 904328,
    905229, 906125, 907018, 907907, 908792, 909674, 910551, 911425, 912295, 913161,
    914023, 914881, 915735, 916585, 917431, 918274, 919112, 919947, 920777, 921604,
    922427, 923245, 924060, 924871, 925678, 926480, 927279, 928074, 928864, 929651,
    930433, 931212, 931986, 932757, 933523, 934285, 935043, 935798, 936547, 937293,
    938035, 938773, 939506, 940235, 940961, 941682, 942399, 943111, 943820, 944524,
    945224, 945920, 946612, 947300, 947983, 948662, 949337, 950008, 950674, 951337,
    951995, 952648, 953298, 953943, 954584, 955221, 955853, 956481, 957105, 957724,
    958340, 958950, 959557, 960159, 960757, 961351, 961940, 962525, 963105, 963681,
    964253, 964820, 965383, 965942, 966496, 967046, 967592, 968133, 968670, 969202,
    969730, 970253, 970772, 971287, 971797, 972302, 972804, 973300, 973793, 974281,
    974764, 975243, 975718, 976188, 976653, 977114, 977571, 978023, 978470, 978913,
    979352, 979786, 980215, 980640, 981061, 981477, 981888, 982295, 982697, 983095,
    983488, 983877, 984261, 984641, 985016, 985386, 985752, 986113, 986470, 986822,
    987170, 987513, 987851, 988185, 988514, 988839, 989159, 989474, 989785, 990091,
    990393, 990690, 990982, 991270, 991553, 991831, 992105, 992374, 992639, 992899,
    993154, 993405, 993651, 993892, 994129, 994361, 994588, 994811, 995029, 995243,
    995451, 995655, 995855, 996050, 996240, 996425, 996606, 996782, 996953, 997120,
    997282, 997440, 997592, 997740, 997884, 998022, 998156, 998286, 998410, 998530,
    998645, 998756, 998862, 998963, 999059, 999151, 999238, 999320, 999398, 999471,
    999539, 999602, 999661, 999715, 999765, 999809, 999849, 999885, 999915, 999941,
    999962, 999979, 999991, 999998, 1000000, 999998, 999991, 999979, 999962, 999941,
    999915, 999885, 999849, 999809, 999765, 999715, 999661, 999602, 999539, 999471,
    999398, 999320, 999238, 999151, 999059, 998963, 998862, 998756, 998645, 998530,
    998410, 998286, 998156, 998022, 997884, 997740, 997592, 997440, 997282, 997120,
    996953, 996782, 996606, 996425, 996240, 996050, 995855, 995655, 995451, 995243,
    995029, 994811, 994588, 994361, 994129, 993892, 993651, 993405, 993154, 992899,
    992639, 992374, 992105, 991831, 991553, 991270, 990982, 990690, 990393, 990091,
    989785, 989474, 989159, 988839, 988514, 988185, 987851, 987513, 987170, 986822,
    986470, 986113, 985752, 985386, 985016, 984641, 984261, 983877, 983488, 983095,
    982697, 982295, 981888, 981477, 981061, 980640, 980215, 979786, 979352, 978913,
    978470, 978023, 977571, 977114, 976653, 976188, 975718, 975243, 974764, 974281,
    973793, 973300, 972804, 972302, 971797, 971287, 970772, 970253, 969730, 969202,
    968670, 968133, 967592, 967046, 966496, 965942, 965383, 964820, 964253, 963681,
    963105, 962525, 961940, 961351, 960757, 960159, 959557, 958950, 958340, 957724,
    957105, 956481, 955853, 955221, 954584, 953943, 953298, 952648, 951995, 951337,
    950674, 950008, 949337, 948662, 947983, 947300, 946612, 945920, 945224, 944524,
    943820, 943111, 942399, 941682, 940961, 940235, 939506, 938773, 938035, 937293,
    936547, 935798, 935043, 934285, 933523, 932757, 931986, 931212, 930433, 929651,
    928864, 928074, 927279, 926480, 925678, 924871, 924060, 923245, 922427, 921604,
    920777, 919947, 919112, 918274, 917431, 916585, 915735, 914881, 914023, 913161,
    912295, 911425, 910551, 909674, 908792, 907907, 907018, 906125, 905229, 904328,
    903424, 902516, 901604, 900688, 899769, 898845, 897918, 896988, 896053, 895115,
    894173, 893228, 892278, 891325, 890369, 889408, 888444, 887477, 886505, 885530,
    884552, 883569, 882584, 881594, 880601, 879605, 878604, 877601, 876593, 875583,
    874568, 873550, 872529, 871504, 870476, 869444, 868408, 867369, 866327, 865281,
    864232, 863180, 862124, 861064, 860001, 858935, 857865, 856792, 855716, 854636,
    853553, 852467, 851377, 850284, 849188, 848089, 846986, 845880, 844770, 843658,
    842542, 841423, 840300, 839175, 838046, 836915, 835779, 834641, 833500, 832355,
    831208, 830057, 828903, 827746, 826586, 825423, 824257, 823088, 821916, 820741,
    819562, 818381, 817197, 816009, 814819, 813626, 812430, 811231, 810029, 808824,
    807616, 806405, 805191, 803975, 802756, 801533, 800308, 799080, 797850, 796616,
    795380, 794141, 792899, 791654, 790407, 789157, 787904, 786649, 785390, 784129,
    782866, 781600, 780331, 779059, 777785, 776508, 775229, 773947, 772662, 771375,
    770086, 768794, 767499, 766202, 764902, 763600, 762295, 760988, 759678, 758366,
    757051, 755734, 754415, 753093, 751769, 750443, 749114, 747783, 746449, 745113,
    743775, 742435, 741092, 739747, 738400, 737050, 735698, 734344, 732988, 731630,
    730269, 728907, 727542, 726175, 724806, 723434, 722061, 720686, 719308, 717929,
    716547, 715163, 713778, 712390, 711000, 709608, 708215, 706819, 705422, 704022,
    702621, 701217, 699812, 698405, 696996, 695585, 694173, 692758, 691342, 689924,
    688504, 687082, 685659, 684233, 682806, 681378, 679948, 678515, 677082, 675646,
    674209, 672771, 671330, 669888, 668445, 667000, 665553, 664105, 662655, 661204,
    659751, 658297, 656841, 655384, 653925, 652465, 651003, 649540, 648075, 646610,
    645142, 643674, 642204, 640732, 639260, 637786, 636311, 634834, 633356, 631877,
    630397, 628916, 627433, 625949, 624464, 622978, 621490, 620002, 618512, 617021,
    615529, 614036, 612542, 611047, 609551, 608053, 606555, 605056, 603556, 602054,
    600552, 599049, 597545, 596040, 594534, 593028, 591520, 590011, 588502, 586992,
    585481, 583969, 582457, 580943, 579429, 577914, 576399, 574882, 573365, 571848,
    570329, 568810, 567290, 565770, 564249, 562727, 561205, 559683, 558159, 556635,
    555111, 553586, 552061, 550535, 549009, 547482, 545954, 544427, 542899, 541370,
    539841, 538312, 536782, 535252, 533722, 532191, 530660, 529129, 527598, 526066,
    524534, 523002, 521469, 519936, 518404, 516871, 515337, 513804, 512271, 510737,
    509203, 507670, 506136, 504602, 503068, 501534, 500000, 498466, 496932, 495398,
    493864, 492330, 490797, 489263, 487729, 486196, 484663, 483129, 481596, 480064,
    478531, 476998, 475466, 473934, 472402, 470871, 469340, 467809, 466278, 464748,
    463218, 461688, 460159, 458630, 457101, 455573, 454046, 452518, 450991, 449465,
    447939, 446414, 444889, 443365, 441841, 440317, 438795, 437273, 435751, 434230,
    432710, 431190, 429671, 428152, 426635, 425118, 423601, 422086, 420571, 419057,
    417543, 416031, 414519, 413008, 411498, 409989, 408480, 406972, 405466, 403960,
    402455, 400951, 399448, 397946, 396444, 394944, 393445, 391947, 390449, 388953,
    387458, 385964, 384471, 382979, 381488, 379998, 378510, 377022, 375536, 374051,
    372567, 371084, 369603, 368123, 366644, 365166, 363689, 362214, 360740, 359268,
    357796, 356326, 354858, 353390, 351925, 350460, 348997, 347535, 346075, 344616,
    343159, 341703, 340249, 338796, 337345, 335895, 334447, 333000, 331555, 330112,
    328670, 327229, 325791, 324354, 322918, 321485, 320052, 318622, 317194, 315767,
    314341, 312918, 311496, 310076, 308658, 307242, 305827, 304415, 303004, 301595,
    300188, 298783, 297379, 295978, 294578, 293181, 291785, 290392, 289000, 287610,
    286222, 284837, 283453, 282071, 280692, 279314, 277939, 276566, 275194, 273825,
    272458, 271093, 269731, 268370, 267012, 265656, 264302, 262950, 261600, 260253,
    258908, 257565, 256225, 254887, 253551, 252217, 250886, 249557, 248231, 246907,
    245585, 244266, 242949, 241634, 240322, 239012, 237705, 236400, 235098, 233798,
    232501, 231206, 229914, 228625, 227338, 226053, 224771, 223492, 222215, 220941,
    219669, 218400, 217134, 215871, 214610, 213351, 212096, 210843, 209593, 208346,
    207101, 205859, 204620, 203384, 202150, 200920, 199692, 198467, 197244, 196025,
    194809, 193595, 192384, 191176, 189971, 188769, 187570, 186374, 185181, 183991,
    182803, 181619, 180438, 179259, 178084, 176912, 175743, 174577, 173414, 172254,
    171097, 169943, 168792, 167645, 166500, 165359, 164221, 163085, 161954, 160825,
    159700, 158577, 157458, 156342, 155230, 154120, 153014, 151911, 150812, 149716,
    148623, 147533, 146447, 145364, 144284, 143208, 142135, 141065, 139999, 138936,
    137876, 136820, 135768, 134719, 133673, 132631, 131592, 130556, 129524, 128496,
    127471, 126450, 125432, 124417, 123407, 122399, 121396, 120395, 119399, 118406,
    117416, 116431, 115448, 114470, 113495, 112523, 111556, 110592, 109631, 108675,
    107722, 106772, 105827, 104885, 103947, 103012, 102082, 101155, 100231, 99312,
    98396, 97484, 96576, 95672, 94771, 93875, 92982, 92093, 91208, 90326,
    89449, 88575, 87705, 86839, 85977, 85119, 84265, 83415, 82569, 81726,
    80888, 80053, 79223, 78396, 77573, 76755, 75940, 75129, 74322, 73520,
    72721, 71926, 71136, 70349, 69567, 68788, 68014, 67243, 66477, 65715,
    64957, 64202, 63453, 62707, 61965, 61227, 60494, 59765, 59039, 58318,
    57601, 56889, 56180, 55476, 54776, 54080, 53388, 52700, 52017, 51338,
    50663, 49992, 49326, 48663, 48005, 47352, 46702, 46057, 45416, 44779,
    44147, 43519, 42895, 42276, 41660, 41050, 40443, 39841, 39243, 38649,
    38060, 37475, 36895, 36319, 35747, 35180, 34617, 34058, 33504, 32954,
    32408, 31867, 31330, 30798, 30270, 29747, 29228, 28713, 28203, 27698,
    27196, 26700, 26207, 25719, 25236, 24757, 24282, 23812, 23347, 22886,
    22429, 21977, 21530, 21087, 20648, 20214, 19785, 19360, 18939, 18523,
    18112, 17705, 17303, 16905, 16512, 16123, 15739, 15359, 14984, 14614,
    14248, 13887, 13530, 13178, 12830, 12487, 12149, 11815, 11486, 11161,
    10841, 10526, 10215, 9909, 9607, 9310, 9018, 8730, 8447, 8169,
    7895, 7626, 7361, 7101, 6846, 6595, 6349, 6108, 5871, 5639,
    5412, 5189, 4971, 4757, 4549, 4345, 4145, 3950, 3760, 3575,
    3394, 3218, 3047, 2880, 2718, 2560, 2408, 2260, 2116, 1978,
    1844, 1714, 1590, 1470, 1355, 1244, 1138, 1037, 941, 849,
    762, 680, 602, 529, 461, 398, 339, 285, 235, 191,
    151, 115, 85, 59, 38, 21, 9, 2
 >>

\* the state of the processor after its constructor
EngineInit ==
    /\ wPitchRatio = One
    /\ inputBuffer = [b \in 0..(BufSize \div BlockSize - 1) |-> 0]
    /\ inputWritePos = 0
    /\ grainReadPos = [g \in 1..NumGrains |-> [i |-> 0, f |-> 0]]
    /\ grainPhase = [g \in 1..NumGrains |-> ((g - 1) * GrainSize) \div NumGrains]
    /\ wOutput = <<>>
    /\ wCall = [inputSample |-> 0, silentBefore |-> TRUE, wetMix |-> One,
                outputGain |-> 2 * One, processed |-> <<>>]
    /\ wCalls = 0
    /\ wMsgs = 0

\* Math.exp(-n) for n = 0 .. 14, in millionths
ExpNegWhole ==
    <<1000000, 367879, 135335, 49787, 18316, 6738, 2479, 912, 335, 123, 45,
      17, 6, 2, 1>>

\* Math.exp(-y) for 0 <= y < 1 by the Taylor series to the 12th term, as
\* 1 - y/k * (1 - y/(k+1) * ...), in millionths
RECURSIVE ExpNegFraction(_, _)
ExpNegFraction(y, k) ==
    IF k > 12 THEN One
    ELSE One - Mul(y, ExpNegFraction(y, k + 1)) \div k

\* Math.exp(-x) for x >= 0, in millionths
ExpNeg(x) ==
    IF x \div One >= Len(ExpNegWhole) THEN 0
    ELSE Mul(ExpNegWhole[x \div One + 1], ExpNegFraction(x % One, 1))

\* SoftClip that writes the mixed sample as it is
SoftClipNone(mixed) == mixed

\* the soft clip of a mixed sample; Math.abs(NaN) > 1.0 is false
SoftClip(mixed) ==
    IF mixed # NaN /\ Abs(mixed) > One
    THEN (IF mixed < 0 THEN -1 ELSE 1) * (One - ExpNeg(Abs(mixed)))
    ELSE mixed

\* Mixed that leaves the wet/dry mix out
MixedAlwaysWet(outputSample, inputSample, wetMix, outputGain) ==
    Mul(outputSample, outputGain)

\* Mixed that leaves the output gain out
MixedNoGain(outputSample, inputSample, wetMix, outputGain) ==
    IF NaN \in {outputSample, wetMix, outputGain} THEN NaN
    ELSE Mul(outputSample, wetMix) + Mul(inputSample, One - wetMix)

\* (outputSample * wetMix + inputSample * (1.0 - wetMix)) * outputGain; NaN
\* when a factor is NaN (NaN * 0 is NaN)
Mixed(outputSample, inputSample, wetMix, outputGain) ==
    IF NaN \in {outputSample, wetMix, outputGain} THEN NaN
    ELSE Mul(Mul(outputSample, wetMix) + Mul(inputSample, One - wetMix),
             outputGain)

\* this.inputBuffer[idx] while sample i of the block is processed: c.buffer
\* is the buffer before the call, c.base the write position before the call,
\* and the slots c.base .. c.base + i hold the block's sample
Slot(c, i, idx) ==
    IF idx \div BlockSize = c.base \div BlockSize /\ idx - c.base <= i
    THEN c.inputSample
    ELSE c.buffer[idx \div BlockSize]

\* Grain without the step back by bufSize at the end of the buffer
GrainUnwrapped(c, i, readPos, phase) ==
    LET windowVal == window[phase + 1]
        readIdx   == JsRem(readPos.i, BufSize)
        s0        == Slot(c, i, readIdx)
        s1        == Slot(c, i, (readIdx + 1) % BufSize)
        sample    == IF readPos.i = NaN THEN NaN
                     ELSE s0 + Mul(s1 - s0, readPos.f)
        writePos  == (c.base + i + 1) % BufSize
        wraps     == phase + 1 >= GrainSize
        restart   == IF writePos - GrainSize < 0
                     THEN writePos - GrainSize + BufSize
                     ELSE writePos - GrainSize
        from      == IF wraps THEN [i |-> restart, f |-> 0] ELSE readPos
        f2        == from.f + c.effectiveRatio
        i2        == from.i + f2 \div One
        i3        == i2
    IN  [weighted  |-> IF sample = NaN THEN NaN ELSE Mul(sample, windowVal),
         windowVal |-> windowVal,
         phase     |-> IF wraps THEN 0 ELSE phase + 1,
         readPos   |-> IF c.effectiveRatio = NaN \/ from.i = NaN
                       THEN [i |-> NaN, f |-> 0]
                       ELSE [i |-> IF i3 < 0 THEN i3 + BufSize ELSE i3,
                             f |-> f2 % One]]

\* one grain at sample i: what it adds to outputSample and totalWeight, and
\* its phase and read position afterwards.  A read position that is NaN has
\* i = NaN: this.inputBuffer[NaN] is undefined and the sample is NaN; a
\* read position stays NaN once NaN is added to it (no comparison with NaN
\* holds) until the grain restarts.
Grain(c, i, readPos, phase) ==
    LET windowVal == window[phase + 1]
        readIdx   == JsRem(readPos.i, BufSize)
        s0        == Slot(c, i, readIdx)
        s1        == Slot(c, i, (readIdx + 1) % BufSize)
        sample    == IF readPos.i = NaN THEN NaN
                     ELSE s0 + Mul(s1 - s0, readPos.f)
        writePos  == (c.base + i + 1) % BufSize
        wraps     == phase + 1 >= GrainSize
        restart   == IF writePos - GrainSize < 0
                     THEN writePos - GrainSize + BufSize
                     ELSE writePos - GrainSize
        from      == IF wraps THEN [i |-> restart, f |-> 0] ELSE readPos
        f2        == from.f + c.effectiveRatio
        i2        == from.i + f2 \div One
        i3        == IF i2 >= BufSize THEN i2 - BufSize ELSE i2
    IN  [weighted  |-> IF sample = NaN THEN NaN ELSE Mul(sample, windowVal),
         windowVal |-> windowVal,
         phase     |-> IF wraps THEN 0 ELSE phase + 1,
         readPos   |-> IF c.effectiveRatio = NaN \/ from.i = NaN
                       THEN [i |-> NaN, f |-> 0]
                       ELSE [i |-> IF i3 < 0 THEN i3 + BufSize ELSE i3,
                             f |-> f2 % One]]

\* the grains g .. numGrains at sample i
RECURSIVE GrainsFrom(_, _, _, _)
GrainsFrom(c, i, st, g) ==
    IF g > NumGrains THEN <<>>
    ELSE <<Grain(c, i, st.grainReadPos[g], st.grainPhase[g])>>
             \o GrainsFrom(c, i, st, g + 1)

RECURSIVE SumOf(_, _)
SumOf(values, n) == IF n = 0 THEN 0 ELSE values[n] + SumOf(values, n - 1)

\* the body of the sample loop at index i
ProcessSample(c, i, st) ==
    LET gs           == GrainsFrom(c, i, st, 1)
        sum          == SumOf([g \in 1..NumGrains |-> gs[g].weighted],
                              NumGrains)
        totalWeight  == SumOf([g \in 1..NumGrains |-> gs[g].windowVal],
                              NumGrains)
        outputSample == IF \E g \in 1..NumGrains : gs[g].weighted = NaN
                        THEN NaN
                        ELSE IF totalWeight > 0 THEN Ratio(sum, totalWeight)
                        ELSE sum
        finalSample  == SoftClip(Mixed(outputSample, c.inputSample,
                                       c.wetMix, c.outputGain))
    IN  [grainReadPos |-> <<gs[1].readPos, gs[2].readPos, gs[3].readPos,
                            gs[4].readPos>>,
         grainPhase   |-> <<gs[1].phase, gs[2].phase, gs[3].phase,
                            gs[4].phase>>,
         processed    |-> Append(st.processed, outputSample),
         output       |-> Append(st.output, finalSample)]

\* the sample loop for i = lo .. hi, the first half before the second
RECURSIVE ProcessSamples(_, _, _, _)
ProcessSamples(c, lo, hi, st) ==
    IF lo = hi THEN ProcessSample(c, lo, st)
    ELSE LET mid   == (lo + hi) \div 2
             first == ProcessSamples(c, lo, mid, st)
         IN  IF Len(first.output) > mid
             THEN ProcessSamples(c, mid + 1, hi, first)
             ELSE first

\* this.pitchRatio += (this.targetRatio - this.pitchRatio) * 0.05
SmoothedPitchRatio(ratio, targetRatio) ==
    IF ratio = NaN \/ targetRatio = NaN THEN NaN
    ELSE ratio + Mul(targetRatio - ratio, 50000)

-----------------------------------------------------------------------------
(* detectPitch                                                             *)
(*                                                                         *)
(* buffer is a sequence of samples in whole units (the result does not     *)
(* depend on the unit).  yinBuffer is a Float32Array: an entry is held     *)
(* rounded, here down to a multiple of 1 / YinOne, and the comparisons and *)
(* the interpolation work on the rounded entries as in the code.  The      *)
(* first loop fills every entry; the entries are computed here as the      *)
(* search reads them, each from the running sum of the one before.  The    *)
(* result is in hundredths of a hertz.                                     *)

SampleRate == 48000

\* the resolution of an entry of yinBuffer
YinOne == 1048576

\* the inner loop: the sum over j = 0 .. halfSize - 1 of delta * delta,
\* taken as the size of the bag that holds j delta * delta + 1 times
Difference(buffer, halfSize, tau) ==
    BagCardinality([j \in 0..(halfSize - 1) |->
                       LET delta == buffer[j + 1] - buffer[j + tau + 1]
                       IN  delta * delta + 1]) - halfSize

\* the first bits binary places of r / d for 0 <= r < d, after acc
RECURSIVE Places(_, _, _, _)
Places(r, d, bits, acc) ==
    IF bits = 0 THEN acc
    ELSE IF 2 * r >= d THEN Places(2 * r - d, d, bits - 1, 2 * acc + 1)
    ELSE Places(2 * r, d, bits - 1, 2 * acc)

\* n / d in units of 1 / YinOne, rounded down
Quotient(n, d) == (n \div d) * YinOne + Places(n % d, d, 20, 0)

\* Normalised that holds 0 when the running sum is 0
NormalisedZero(difference, tau, sum) ==
    IF sum = 0 THEN 0 ELSE Quotient(difference * tau, sum)

\* sum === 0 ? 1 : yinBuffer[tau] * tau / sum
Normalised(difference, tau, sum) ==
    IF sum = 0 THEN YinOne ELSE Quotient(difference * tau, sum)

\* the rest of the iteration tau of the first loop, after the running sum
\* of the iteration before: the running sum and yinBuffer[tau]
YinBuffer(difference, tau, sumBefore) ==
    LET sum == sumBefore + difference
    IN  [sum |-> sum, value |-> Normalised(difference, tau, sum)]

\* yinBuffer[tau] < 0.1
BelowThreshold(value) == value < (YinOne + 9) \div 10

\* Descend that ends the inner while at once
DescendNever(differences, halfSize, st) == [st EXCEPT !.pc = "end"]

\* one iteration of the inner while: st holds tau, the entries before at
\* tau - 1 and at at tau with their running sums, and s2, the entry at
\* tau + 1 once it is read
Descend(differences, halfSize, st) ==
    IF st.tau + 1 < halfSize
    THEN LET next == YinBuffer(differences[st.tau + 1], st.tau + 1,
                               st.at.sum)
         IN  IF next.value < st.at.value
             THEN [st EXCEPT !.tau = st.tau + 1, !.before = st.at,
                             !.at = next]
             ELSE [st EXCEPT !.pc = "end", !.s2 = next.value]
    ELSE [st EXCEPT !.pc = "end"]

\* one iteration of the outer while; it ends with tau = halfSize when no
\* entry is below the threshold
Search(differences, halfSize, st) ==
    IF st.tau >= halfSize THEN [st EXCEPT !.pc = "end", !.tau = halfSize]
    ELSE LET at == YinBuffer(differences[st.tau], st.tau, st.before.sum)
         IN  IF BelowThreshold(at.value)
             THEN [st EXCEPT !.pc = "inner", !.at = at]
             ELSE [st EXCEPT !.tau = st.tau + 1, !.before = at]

\* up to n iterations of the two whiles, the first half before the second
RECURSIVE Whiles(_, _, _, _)
Whiles(differences, halfSize, n, st) ==
    IF st.pc = "end" \/ n = 0 THEN st
    ELSE IF n = 1
    THEN (IF st.pc = "inner" THEN Descend(differences, halfSize, st)
          ELSE Search(differences, halfSize, st))
    ELSE LET first == Whiles(differences, halfSize, n \div 2, st)
         IN  IF first.pc = "end" THEN first
             ELSE Whiles(differences, halfSize, n - n \div 2, first)

\* the lag the two whiles end with, from tau = 2, and the entries around
\* it; differences[tau] is yinBuffer[tau] as the inner loop leaves it
SelectedLag(buffer) ==
    LET halfSize    == Len(buffer) \div 2
        differences == [tau \in 1..(halfSize - 1) |->
                           Difference(buffer, halfSize, tau)]
        none        == [sum |-> 0, value |-> 0]
        st          == Whiles(differences, halfSize, halfSize + 2,
                              [pc |-> "outer", tau |-> 2,
                               before |-> YinBuffer(differences[1], 1, 0),
                               at |-> none, s2 |-> 0])
    IN  IF halfSize < 2
        THEN [tau |-> 2, s0 |-> 0, s1 |-> 0, s2 |-> 0]
        ELSE [tau |-> st.tau, s0 |-> st.before.value, s1 |-> st.at.value,
              s2 |-> st.s2]

\* the quotient q and the remainder r of a * r by m, for 0 <= r < m, by the
\* decimal digits of a to stay within 32 bits
RECURSIVE MulDiv(_, _, _)
MulDiv(a, r, m) ==
    IF a = 0 THEN [q |-> 0, r |-> 0]
    ELSE LET rest == MulDiv(a \div 10, r, m)
             low  == 10 * rest.r + (a % 10) * r
         IN  [q |-> 10 * rest.q + low \div m, r |-> low % m]

\* sampleRate / tau for tau = m / q with m > 0 and q > 0, in hundredths
\* (truncated)
Frequency(sampleRate, m, q) ==
    sampleRate * 100 * (q \div m) + MulDiv(sampleRate * 100, q % m, m).q

\* Interpolation that leaves tau as it is
InterpolationNone(s0, s1, s2) == [p |-> 0, q |-> 1]

\* (s2 - s0) / (2 * (2 * s1 - s2 - s0)) as the fraction p / q
Interpolation(s0, s1, s2) ==
    [p |-> s2 - s0, q |-> 2 * (2 * s1 - s2 - s0)]

\* the rest of detectPitch once the whiles ended with lag
PitchOfLag(lag, halfSize, sampleRate) ==
    LET tau  == lag.tau
        \* yinBuffer[tau] >= 0.1; undefined >= 0.1 is false
        high == tau < halfSize /\ ~BelowThreshold(lag.s1)
        c    == Interpolation(lag.s0, lag.s1, lag.s2)
        m    == tau * c.q + c.p
    IN  IF tau = halfSize \/ high THEN 0
        ELSE IF tau > 0 /\ tau < halfSize - 1
        THEN (IF c.q = 0 THEN (IF c.p = 0 THEN NaN ELSE 0)
              ELSE IF m = 0 THEN Infinity
              ELSE IF (m < 0) # (c.q < 0)
              THEN -Frequency(sampleRate, Abs(m), Abs(c.q))
              ELSE Frequency(sampleRate, Abs(m), Abs(c.q)))
        ELSE Frequency(sampleRate, tau, 1)

detectPitch(buffer, sampleRate) ==
    PitchOfLag(SelectedLag(buffer), Len(buffer) \div 2, sampleRate)

\* analyserInputRef.current.fftSize
FftSize == 4096

\* a quarter of one period of a sine of amplitude 20 over 4800 samples:
\* sample k is 20 sin(2 pi k / 4800) rounded, for k = 0 .. 1200
QuarterSine ==
 <<
    0, 0, 0, 0, 0, 0, 0, 0, 0, 0, 0, 0, 0, 0, 0, 0, 0, 0, 0, 0,
    1, 1, 1, 1, 1, 1, 1, 1, 1, 1, 1, 1, 1, 1, 1, 1, 1, 1, 1, 1,
    1, 1, 1, 1, 1, 1, 1, 1, 1, 1, 1, 1, 1, 1, 1, 1, 1, 1, 2, 2,
    2, 2, 2, 2, 2, 2, 2, 2, 2, 2, 2, 2, 2, 2, 2, 2, 2, 2, 2, 2,
    2, 2, 2, 2, 2, 2, 2, 2, 2, 2, 2, 2, 2, 2, 2, 2, 3, 3, 3, 3,
    3, 3, 3, 3, 3, 3, 3, 3, 3, 3, 3, 3, 3, 3, 3, 3, 3, 3, 3, 3,
    3, 3, 3, 3, 3, 3, 3, 3, 3, 3, 3, 3, 3, 3, 3, 4, 4, 4, 4, 4,
    4, 4, 4, 4, 4, 4, 4, 4, 4, 4, 4, 4, 4, 4, 4, 4, 4, 4, 4, 4,
    4, 4, 4, 4, 4, 4, 4, 4, 4, 4, 4, 4, 4, 4, 5, 5, 5, 5, 5, 5,
    5, 5, 5, 5, 5, 5, 5, 5, 5, 5, 5, 5, 5, 5, 5, 5, 5, 5, 5, 5,
    5, 5, 5, 5, 5, 5, 5, 5, 5, 5, 5, 5, 5, 6, 6, 6, 6, 6, 6, 6,
    6, 6, 6, 6, 6, 6, 6, 6, 6, 6, 6, 6, 6, 6, 6, 6, 6, 6, 6, 6,
    6, 6, 6, 6, 6, 6, 6, 6, 6, 6, 6, 6, 6, 7, 7, 7, 7, 7, 7, 7,
    7, 7, 7, 7, 7, 7, 7, 7, 7, 7, 7, 7, 7, 7, 7, 7, 7, 7, 7, 7,
    7, 7, 7, 7, 7, 7, 7, 7, 7, 7, 7, 7, 7, 7, 8, 8, 8, 8, 8, 8,
    8, 8, 8, 8, 8, 8, 8, 8, 8, 8, 8, 8, 8, 8, 8, 8, 8, 8, 8, 8,
    8, 8, 8, 8, 8, 8, 8, 8, 8, 8, 8, 8, 8, 8, 8, 8, 9, 9, 9, 9,
    9, 9, 9, 9, 9, 9, 9, 9, 9, 9, 9, 9, 9, 9, 9, 9, 9, 9, 9, 9,
    9, 9, 9, 9, 9, 9, 9, 9, 9, 9, 9, 9, 9, 9, 9, 9, 9, 9, 9, 10,
    10, 10, 10, 10, 10, 10, 10, 10, 10, 10, 10, 10, 10, 10, 10, 10, 10, 10, 10, 10,
    10, 10, 10, 10, 10, 10, 10, 10, 10, 10, 10, 10, 10, 10, 10, 10, 10, 10, 10, 10,
    10, 10, 10, 11, 11, 11, 11, 11, 11, 11, 11, 11, 11, 11, 11, 11, 11, 11, 11, 11,
    11, 11, 11, 11, 11, 11, 11, 11, 11, 11, 11, 11, 11, 11, 11, 11, 11, 11, 11, 11,
    11, 11, 11, 11, 11, 11, 11, 11, 12, 12, 12, 12, 12, 12, 12, 12, 12, 12, 12, 12,
    12, 12, 12, 12, 12, 12, 12, 12, 12, 12, 12, 12, 12, 12, 12, 12, 12, 12, 12, 12,
    12, 12, 12, 12, 12, 12, 12, 12, 12, 12, 12, 12, 12, 12, 12, 12, 13, 13, 13, 13,
    13, 13, 13, 13, 13, 13, 13, 13, 13, 13, 13, 13, 13, 13, 13, 13, 13, 13, 13, 13,
    13, 13, 13, 13, 13, 13, 13, 13, 13, 13, 13, 13, 13, 13, 13, 13, 13, 13, 13, 13,
    13, 13, 13, 13, 13, 13, 13, 14, 14, 14, 14, 14, 14, 14, 14, 14, 14, 14, 14, 14,
    14, 14, 14, 14, 14, 14, 14, 14, 14, 14, 14, 14, 14, 14, 14, 14, 14, 14, 14, 14,
    14, 14, 14, 14, 14, 14, 14, 14, 14, 14, 14, 14, 14, 14, 14, 14, 14, 14, 14, 14,
    15, 15, 15, 15, 15, 15, 15, 15, 15, 15, 15, 15, 15, 15, 15, 15, 15, 15, 15, 15,
    15, 15, 15, 15, 15, 15, 15, 15, 15, 15, 15, 15, 15, 15, 15, 15, 15, 15, 15, 15,
    15, 15, 15, 15, 15, 15, 15, 15, 15, 15, 15, 15, 15, 15, 15, 15, 15, 15, 16, 16,
    16, 16, 16, 16, 16, 16, 16, 16, 16, 16, 16, 16, 16, 16, 16, 16, 16, 16, 16, 16,
    16, 16, 16, 16, 16, 16, 16, 16, 16, 16, 16, 16, 16, 16, 16, 16, 16, 16, 16, 16,
    16, 16, 16, 16, 16, 16, 16, 16, 16, 16, 16, 16, 16, 16, 16, 16, 16, 16, 16, 16,
    16, 16, 17, 17, 17, 17, 17, 17, 17, 17, 17, 17, 17, 17, 17, 17, 17, 17, 17, 17,
    17, 17, 17, 17, 17, 17, 17, 17, 17, 17, 17, 17, 17, 17, 17, 17, 17, 17, 17, 17,
    17, 17, 17, 17, 17, 17, 17, 17, 17, 17, 17, 17, 17, 17, 17, 17, 17, 17, 17, 17,
    17, 17, 17, 17, 17, 17, 17, 17, 17, 17, 17, 17, 17, 17, 18, 18, 18, 18, 18, 18,
    18, 18, 18, 18, 18, 18, 18, 18, 18, 18, 18, 18, 18, 18, 18, 18, 18, 18, 18, 18,
    18, 18, 18, 18, 18, 18, 18, 18, 18, 18, 18, 18, 18, 18, 18, 18, 18, 18, 18, 18,
    18, 18, 18, 18, 18, 18, 18, 18, 18, 18, 18, 18, 18, 18, 18, 18, 18, 18, 18, 18,
    18, 18, 18, 18, 18, 18, 18, 18, 18, 18, 18, 18, 18, 18, 18, 18, 18, 18, 18, 18,
    18, 18, 18, 19, 19, 19, 19, 19, 19, 19, 19, 19, 19, 19, 19, 19, 19, 19, 19, 19,
    19, 19, 19, 19, 19, 19, 19, 19, 19, 19, 19, 19, 19, 19, 19, 19, 19, 19, 19, 19,
    19, 19, 19, 19, 19, 19, 19, 19, 19, 19, 19, 19, 19, 19, 19, 19, 19, 19, 19, 19,
    19, 19, 19, 19, 19, 19, 19, 19, 19, 19, 19, 19, 19, 19, 19, 19, 19, 19, 19, 19,
    19, 19, 19, 19, 19, 19, 19, 19, 19, 19, 19, 19, 19, 19, 19, 19, 19, 19, 19, 19,
    19, 19, 19, 19, 19, 19, 19, 19, 19, 19, 19, 19, 19, 19, 19, 19, 19, 19, 19, 19,
    19, 19, 19, 19, 19, 19, 19, 19, 19, 20, 20, 20, 20, 20, 20, 20, 20, 20, 20, 20,
    20, 20, 20, 20, 20, 20, 20, 20, 20, 20, 20, 20, 20, 20, 20, 20, 20, 20, 20, 20,
    20, 20, 20, 20, 20, 20, 20, 20, 20, 20, 20, 20, 20, 20, 20, 20, 20, 20, 20, 20,
    20, 20, 20, 20, 20, 20, 20, 20, 20, 20, 20, 20, 20, 20, 20, 20, 20, 20, 20, 20,
    20, 20, 20, 20, 20, 20, 20, 20, 20, 20, 20, 20, 20, 20, 20, 20, 20, 20, 20, 20,
    20, 20, 20, 20, 20, 20, 20, 20, 20, 20, 20, 20, 20, 20, 20, 20, 20, 20, 20, 20,
    20, 20, 20, 20, 20, 20, 20, 20, 20, 20, 20, 20, 20, 20, 20, 20, 20, 20, 20, 20,
    20, 20, 20, 20, 20, 20, 20, 20, 20, 20, 20, 20, 20, 20, 20, 20, 20, 20, 20, 20,
    20, 20, 20, 20, 20, 20, 20, 20, 20, 20, 20, 20, 20, 20, 20, 20, 20, 20, 20, 20,
    20
 >>

\* 20 sin(2 pi k / 4800) rounded, for 0 <= k < 4800
Sine(k) ==
    IF k <= 1200 THEN QuarterSine[k + 1]
    ELSE IF k <= 2400 THEN QuarterSine[2400 - k + 1]
    ELSE IF k <= 3600 THEN -QuarterSine[k - 2400 + 1]
    ELSE -QuarterSine[4800 - k + 1]

\* the window getFloatTimeDomainData fills from a sine of 10 * step hertz
\* sampled at SampleRate, which starts at phase / 4800 of its period
ToneWindow(step, phase) ==
    [j \in 1..FftSize |-> Sine((phase + (j - 1) * step) % 4800)]

NoTone == [step |-> 0, phase |-> 0]

NoLag == [tau |-> 0, s0 |-> 0, s1 |-> 0, s2 |-> 0]

\* the detector before its call
DIdle ==
    /\ dWindow = <<>>
    /\ dPitch = 0
    /\ dPc = "idle"
    /\ dTone = NoTone
    /\ dLag = NoLag

\* the controller's variables while another part runs
CIdle ==
    /\ cOptions = DefaultOptions
    /\ cRatio = One
    /\ cRun = NoRun
    /\ cRuns = 0

\* the steady-tone loop's variables while another part runs
TIdle ==
    /\ tPitch = 0
    /\ tMode = "modern"
    /\ tBypassed = FALSE
    /\ tTrajectory = <<>>
    /\ tCorrected = 0
    /\ tToggles = 0
    /\ tTones = 0

-----------------------------------------------------------------------------
(* PitchShifterProcessor.process, the worklet of the first variant          *)
(*                                                                         *)
(* A sample is in millionths of full scale and this.phase in millionths of *)
(* a slot of this.buffer.                                                  *)

\* this.grainSize of PitchShifterProcessor
VGrainSize == 512

\* this.buffer[k]: the buffer is held as the slots written so far, the
\* others are the zeros of new Float32Array(grainSize * 2)
BufferAt(buffer, k) == IF k \in DOMAIN buffer THEN buffer[k] ELSE 0

\* the state of the processor after its constructor
VInit ==
    /\ vPitchRatio = One
    /\ vBuffer = [k \in {} |-> 0]
    /\ vBufferIndex = 0
    /\ vPhase = 0
    /\ vOutput = <<>>
    /\ vCall = [inputChannel |-> <<>>, pitchRatio |-> One, phase |-> 0,
                bufferIndex |-> 0]
    /\ vCalls = 0
    /\ vMsgs = 0

\* sample1 + frac * (sample2 - sample1)
Interpolate(sample1, sample2, frac) == sample1 + Mul(sample2 - sample1, frac)

\* the body of the sample loop at index i: st holds this.buffer,
\* this.bufferIndex, this.phase and the output written so far
VProcessSample(inputChannel, pitchRatio, i, st) ==
    LET written  == {st.bufferIndex, st.bufferIndex + VGrainSize}
        stored   == [k \in DOMAIN st.buffer \cup written |->
                        IF k \in written THEN inputChannel[i + 1]
                        ELSE st.buffer[k]]
        readIndex == st.phase
        intIndex == (readIndex \div One) % VGrainSize
        frac     == readIndex % One
        sample1  == BufferAt(stored, intIndex)
        sample2  == BufferAt(stored, (intIndex + 1) % VGrainSize)
        advanced == st.phase + pitchRatio
    IN  [buffer      |-> stored,
         bufferIndex |-> (st.bufferIndex + 1) % VGrainSize,
         phase       |-> IF advanced >= VGrainSize * One
                         THEN advanced - VGrainSize * One ELSE advanced,
         output      |-> Append(st.output,
                                Interpolate(sample1, sample2, frac))]

\* the sample loop for i = lo .. hi, the first half before the second
RECURSIVE VProcessSamples(_, _, _, _, _)
VProcessSamples(inputChannel, pitchRatio, lo, hi, st) ==
    IF lo = hi THEN VProcessSample(inputChannel, pitchRatio, lo, st)
    ELSE LET mid   == (lo + hi) \div 2
             first == VProcessSamples(inputChannel, pitchRatio, lo, mid, st)
         IN  IF Len(first.output) > mid
             THEN VProcessSamples(inputChannel, pitchRatio, mid + 1, hi,
                                  first)
             ELSE first

MaxVCalls == 3      \* process calls of the first variant in one behaviour
MaxVMessages == 2   \* its port messages in one behaviour

\* event.data.pitchRatio: the unison and the ratios 440/450 and 450/440
VRatios == {One, 977778, 1022727}

\* the sample a block of the first variant is filled with
VInputSamples == {0, 250000, -500000}

\* port.onmessage of PitchShifterProcessor
VOnMessage ==
    /\ vMsgs < MaxVMessages
    /\ \E pitchRatio \in VRatios : vPitchRatio' = pitchRatio
    /\ vMsgs' = vMsgs + 1
    /\ UNCHANGED <<qVars, cVars, engineVars, dVars, tVars, pVars, hVars,
                   vBuffer, vBufferIndex, vPhase, vOutput, vCall, vCalls>>

\* PitchShifterProcessor.process on a block of BlockSize samples
VProcess ==
    /\ vCalls < MaxVCalls
    /\ \E inputSample \in VInputSamples :
          LET inputChannel == [i \in 1..BlockSize |-> inputSample]
              st == VProcessSamples(inputChannel, vPitchRatio, 0,
                                    BlockSize - 1,
                                    [buffer |-> vBuffer,
                                     bufferIndex |-> vBufferIndex,
                                     phase |-> vPhase, output |-> <<>>])
          IN  /\ vBuffer' = st.buffer
              /\ vBufferIndex' = st.bufferIndex
              /\ vPhase' = st.phase
              /\ vOutput' = st.output
              /\ vCall' = [inputChannel |-> inputChannel,
                           pitchRatio |-> vPitchRatio, phase |-> vPhase,
                           bufferIndex |-> vBufferIndex]
    /\ vCalls' = vCalls + 1
    /\ UNCHANGED <<qVars, cVars, engineVars, dVars, tVars, pVars, hVars,
                   vPitchRatio, vMsgs>>

VNext ==
    \/ VOnMessage
    \/ VProcess

-----------------------------------------------------------------------------
(* The pitch history of processAudio.  A time is in milliseconds.          *)

\* now - p.time < 5000
HistoryWindow == 5000

\* .slice(-300)
HistoryCap == 300

\* Retained that keeps every entry
RetainedAll(history, now) == history

\* pitchHistoryRef.current.filter(p => now - p.time < 5000)
Retained(history, now) ==
    LET Young(p) == now - p.time < HistoryWindow
    IN  SelectSeq(history, Young)

\* s.slice(-n)
SliceLast(s, n) ==
    IF Len(s) > n THEN SubSeq(s, Len(s) - n + 1, Len(s)) ELSE s

\* a || b || 0, with b the field of the last entry, undefined when there is
\* none
OrLast(a, history, field) ==
    IF a # 0 THEN a
    ELSE IF history # <<>> THEN history[Len(history)][field]
    ELSE 0

\* the new value of pitchHistoryRef.current
UpdatedHistory(history, now, detectedPitch, correctedPitch) ==
    SliceLast(Append(Retained(history, now),
                     [input     |-> OrLast(detectedPitch, history, "input"),
                      corrected |-> OrLast(correctedPitch, history,
                                           "corrected"),
                      time      |-> now]),
              HistoryCap)

\* the positions of the grains after the constructor: every grain reads
\* from slot 0 and none was reset; no index was used
RingIdle ==
    /\ ringAbs = [g \in 1..NumGrains |-> [i |-> 0, reset |-> FALSE]]
    /\ ringUse = [writeLow |-> 0, writeHigh |-> 0, posLow |-> 0,
                  posHigh |-> 0, idxLow |-> 0, idxHigh |-> 0,
                  phaseLow |-> 0, phaseHigh |-> 0, lead |-> -BufSize,
                  leadNext |-> -BufSize, leadReset |-> -BufSize,
                  leadNextReset |-> -BufSize, resets |-> 0]
    /\ ringMsgs = 0

\* the history before any run
PInit ==
    /\ pitchHistoryRef = <<>>
    /\ clock = 0
    /\ pRun = [ran |-> FALSE, now |-> 0, before |-> <<>>]
    /\ pRuns = 0
    /\ pJumps = 0
    /\ pPeriod = 16
    /\ twinOptions = DefaultOptions
    /\ twinHistory = [i \in 1..2 |-> <<>>]
    /\ twinRatio = [i \in 1..2 |-> One]
    /\ twinNotes = [i \in 1..2 |-> [activeNote |-> "", lastNote |-> "-"]]
    /\ twinPosted = [i \in 1..2 |-> <<>>]
    /\ twinClock = 0
    /\ twinRuns = 0
    /\ gMonitoring = TRUE
    /\ gBypassed = FALSE
    /\ gVolume = 750000
    /\ gTarget = 0
    /\ gState = [isMonitoring |-> TRUE, isBypassed |-> FALSE,
                 monitorVolume |-> 75]
    /\ gPosted = <<>>
    /\ gSeen = {}
    /\ gCalls = 0
    /\ RingIdle

MaxHistoryRuns == 302   \* runs of processAudio in one behaviour
MaxJumps == 1           \* backward steps of the wall clock in one behaviour

\* milliseconds between two frames of requestAnimationFrame: a 60 Hz and a
\* 25 Hz display
FramePeriods == {16, 40}

\* the detected pitch of run n: two voiced frames, then an unvoiced one
HistoryPitch(n) == IF n % 3 = 2 THEN 0 ELSE 44000

\* the history update of processAudio.  Date.now() is the time of the last
\* run plus the frame period, or, once, 20 ms before the last run: the wall
\* clock is not monotonic.
HistoryProcessAudio ==
    /\ pRuns < MaxHistoryRuns
    /\ \E period \in (IF pRuns = 0 THEN FramePeriods ELSE {pPeriod}) :
       \E back \in (IF pRuns > 0 /\ pJumps < MaxJumps THEN BOOLEAN
                     ELSE {FALSE}) :
          LET now == IF back THEN clock - 20 ELSE clock + period
              detectedPitch == HistoryPitch(pRuns)
          IN  /\ pitchHistoryRef' =
                    UpdatedHistory(pitchHistoryRef, now, detectedPitch,
                                   detectedPitch)
              /\ clock' = now
              /\ pRun' = [ran |-> TRUE, now |-> now,
                          before |-> pitchHistoryRef]
              /\ pPeriod' = period
              /\ pJumps' = IF back THEN pJumps + 1 ELSE pJumps
    /\ pRuns' = pRuns + 1
    /\ UNCHANGED <<qVars, cVars, engineVars, dVars, tVars, vVars, hVars,
                   twinVars, gainVars, ringVars>>

HistoryNext == HistoryProcessAudio

\* what a run of processAudio leaves, given r, the outcome of its
\* correcting part: loop holds pitchHistoryRef.current,
\* currentPitchRatioRef.current, activeNotesRef.current[0] and
\* lastNoteRef.current before the run
ProcessAudioResult(r, loop, now, detectedPitch) ==
    [history    |-> UpdatedHistory(loop.history, now, detectedPitch,
                                   r.run.correctedPitch),
     ratio      |-> r.ratio,
     activeNote |-> r.activeNote,
     lastNote   |-> r.lastNote,
     posted     |-> r.msgs]

\* a run that corrects the pitch of the last history entry on a frame
\* without a pitch
ProcessAudioFromHistory(loop, opts, scaleFreqs, detectedPitch, random, bypassed, mode, now) ==
    ProcessAudioResult(
        RunProcessAudio(opts, scaleFreqs,
                        OrLast(detectedPitch, loop.history, "input"), random,
                        bypassed, mode, loop.ratio, loop.activeNote,
                        loop.lastNote, TRUE),
        loop, now, detectedPitch)

\* one run of processAudio past its guard: the correction works on what
\* detectPitch returned, the history update follows it
ProcessAudioOnce(loop, opts, scaleFreqs, detectedPitch, random, bypassed, mode, now) ==
    ProcessAudioResult(
        RunProcessAudio(opts, scaleFreqs, detectedPitch, random, bypassed,
                        mode, loop.ratio, loop.activeNote, loop.lastNote,
                        TRUE),
        loop, now, detectedPitch)

\* the three parts above while another part runs
RestIdle == TIdle /\ VInit /\ PInit

-----------------------------------------------------------------------------
(* The hook useAudioProcessor under TonalSyncPlugin (Spec)                 *)

MaxBlocks == 1      \* frames of the processAudio loop in one behaviour
MaxStarts == 2      \* start() calls in one behaviour
MaxEdits == 1       \* changes of an option or of the mode in one behaviour
MaxPort == 2        \* messages in flight on the worklet's port

\* values of the knobs and menus the behaviours use
RetuneSpeeds == {0, 100}
Humanizes == {0, 15}
Mixes == {50, 100}
HookKeys == {"C", "A"}
HookScales == {"Major", "Chromatic"}
Modes == {"modern", "classic"}

\* what detectPitch returns to processAudio, in hundredths of a hertz
DetectedPitches == {0, 45000}

\* what Math.random() returns, in millionths
Randoms == {0, 999999}

\* the quantizer's variables while the hook runs
QIdle ==
    /\ qOptions = [selectedKey |-> "C", selectedScale |-> "Major"]
    /\ qFreq = 0
    /\ qTable = <<>>
    /\ qResult = NoTarget
    /\ qPc = "idle"

HInit ==
    /\ options = DefaultOptions
    /\ isActive = FALSE
    /\ isBypassed = FALSE
    /\ audioContextRef = 0
    /\ streamRef = 0
    /\ analyserInputRef = 0
    /\ pitchShifterRef = 0
    /\ outputGainRef = 0
    /\ animationFrameRef = FALSE
    /\ frames = {}
    /\ isBypassedRef = FALSE
    /\ correctionModeRef = "modern"
    /\ currentPitchRatioRef = One
    /\ activeNote = ""
    /\ lastNoteRef = "-"
    /\ liveTracks = {}
    /\ openContexts = {}
    /\ startPc = "idle"
    /\ startOptions = DefaultOptions
    /\ startCtx = 0
    /\ stopInStart = FALSE
    /\ port = <<>>
    /\ wTargetRatio = One
    /\ wWetMix = One
    /\ wOutputGain = 2 * One
    /\ lastRun = NoRun
    /\ posted = <<>>
    /\ op = "init"
    /\ bypassAsked = FALSE
    /\ blocks = 0
    /\ starts = 0
    /\ edits = 0

Init == QIdle /\ CIdle /\ EngineInit /\ DIdle /\ RestIdle /\ HInit

\* a knob or menu of TonalSyncPlugin sets its state: the component renders
\* again and calls the hook with the new options
SetOptions(new, name) ==
    /\ edits < MaxEdits
    /\ new # options
    /\ options' = new
    /\ edits' = edits + 1
    /\ posted' = <<>>
    /\ op' = name
    /\ UNCHANGED <<soloVars, isActive, isBypassed, refVars, loopVars, ctlVars,
                   startVars, workletVars, lastRun, bypassAsked, blocks,
                   starts>>

SetRetuneSpeed ==
    \E v \in RetuneSpeeds :
        SetOptions([options EXCEPT !.retuneSpeed = v], "setRetuneSpeed")

SetHumanize ==
    \E v \in Humanizes :
        SetOptions([options EXCEPT !.humanize = v], "setHumanize")

SetMix ==
    \E v \in Mixes : SetOptions([options EXCEPT !.mix = v], "setMix")

SetSelectedKey ==
    \E v \in HookKeys :
        SetOptions([options EXCEPT !.selectedKey = v], "setSelectedKey")

SetSelectedScale ==
    \E v \in HookScales :
        SetOptions([options EXCEPT !.selectedScale = v], "setSelectedScale")

SetCorrectionMode ==
    \E mode \in Modes :
        /\ edits < MaxEdits
        /\ mode # correctionModeRef
        /\ correctionModeRef' = mode
        /\ edits' = edits + 1
        /\ posted' = <<>>
        /\ op' = "setCorrectionMode"
        /\ UNCHANGED <<soloVars, options, isActive, isBypassed, refVars,
                       loopVars, isBypassedRef, currentPitchRatioRef,
                       activeNote, lastNoteRef, startVars, workletVars,
                       lastRun, bypassAsked, blocks, starts>>

\* the Bypass button: setBypass(!audioProcessor.isBypassed), disabled while
\* !audioProcessor.isActive; the closure is the one of the latest render
SetBypass ==
    LET bypassed == ~isBypassed
        msgs == IF pitchShifterRef # 0
                THEN <<BypassMessage(bypassed, currentPitchRatioRef,
                                     options.mix)>>
                ELSE <<>>
    IN  /\ isActive
        /\ Len(port) + Len(msgs) <= MaxPort
        /\ isBypassedRef' = bypassed
        /\ port' = port \o msgs
        /\ posted' = msgs
        /\ isBypassed' = bypassed
        /\ bypassAsked' = bypassed
        /\ op' = "setBypass"
        /\ UNCHANGED <<soloVars, options, isActive, refVars, loopVars,
                       correctionModeRef, currentPitchRatioRef, activeNote,
                       lastNoteRef, startVars, wTargetRatio, wWetMix, wOutputGain,
                       lastRun, blocks, starts, edits>>

\* start(deviceId) up to its first await: the device menu calls it while
\* !isActive and is disabled while a start is in flight (isLoading)
StartBegin ==
    /\ ~isActive
    /\ startPc = "idle"
    /\ starts < MaxStarts
    /\ starts' = starts + 1
    /\ audioContextRef' = starts + 1
    /\ openContexts' = openContexts \cup {starts + 1}
    /\ startCtx' = starts + 1
    /\ stopInStart' = FALSE
    /\ startOptions' = options
    /\ startPc' = "media"
    /\ posted' = <<>>
    /\ op' = "startBegin"
    /\ UNCHANGED <<soloVars, options, isActive, isBypassed, streamRef,
                   analyserInputRef, pitchShifterRef, outputGainRef,
                   liveTracks, loopVars, ctlVars, workletVars, lastRun,
                   bypassAsked, blocks, edits>>

\* getUserMedia resolves: start() runs up to await initPitchShifter(ctx)
StartGotMedia ==
    /\ startPc = "media"
    /\ streamRef' = startCtx
    /\ liveTracks' = liveTracks \cup {startCtx}
    /\ analyserInputRef' = startCtx
    /\ startPc' = "module"
    /\ posted' = <<>>
    /\ op' = "startGotMedia"
    /\ UNCHANGED <<soloVars, options, isActive, isBypassed, audioContextRef,
                   pitchShifterRef, outputGainRef, openContexts, loopVars,
                   ctlVars, startOptions, startCtx, stopInStart, workletVars,
                   lastRun,
                   bypassAsked, blocks, starts, edits>>

\* getUserMedia or addModule rejects: the catch block logs and rethrows
StartFails ==
    /\ startPc \in {"media", "module"}
    /\ startPc' = "idle"
    /\ posted' = <<>>
    /\ op' = "startFails"
    /\ UNCHANGED <<soloVars, options, isActive, isBypassed, refVars, loopVars,
                   ctlVars, startOptions, startCtx, stopInStart, workletVars,
                   lastRun,
                   bypassAsked, blocks, starts, edits>>

\* the frames after a run of processAudio in the closure with options opts
\* that reached requestAnimationFrame: its handle is the one
\* animationFrameRef holds (launch: the options of the latest render when
\* start() launched this loop)
Rescheduled(others, opts, launch) ==
    {[f EXCEPT !.cur = FALSE] : f \in others}
        \cup {[opts |-> opts, cur |-> TRUE, launch |-> launch]}

\* addModule resolves: start() sets pitchShifterRef, makeupGainRef and
\* outputGainRef and connects the graph from sourceRef.current on, which
\* throws when stop() has set sourceRef (and analyserInputRef) to null since
\* getUserMedia resolved: the catch block logs and rethrows
StartThrows ==
    /\ startPc = "module"
    /\ analyserInputRef = 0
    /\ startPc' = "idle"
    /\ pitchShifterRef' = startCtx
    /\ outputGainRef' = startCtx
    /\ port' = <<>>
    /\ wTargetRatio' = One
    /\ wWetMix' = One
    /\ wOutputGain' = 2 * One
    /\ posted' = <<>>
    /\ op' = "startThrows"
    /\ UNCHANGED <<soloVars, options, isActive, isBypassed, audioContextRef,
                   streamRef, analyserInputRef, liveTracks, openContexts,
                   loopVars, ctlVars, startOptions, startCtx, stopInStart,
                   lastRun, bypassAsked, blocks, starts, edits>>

\* start(deviceId) without a device: throws before it touches a ref
StartNoDevice ==
    /\ ~isActive
    /\ startPc = "idle"
    /\ op # "startNoDevice"
    /\ posted' = <<>>
    /\ op' = "startNoDevice"
    /\ UNCHANGED <<soloVars, options, isActive, isBypassed, refVars, loopVars,
                   ctlVars, startVars, workletVars, lastRun, bypassAsked,
                   blocks, starts, edits>>

\* addModule resolves: start() builds the rest of the graph, resets the
\* refs, sets the state and calls processAudio() of its own closure, which
\* returns at its guard when stop() has set audioContextRef to null
StartFinish ==
    /\ startPc = "module"
    /\ analyserInputRef # 0
    /\ startPc' = "idle"
    /\ pitchShifterRef' = startCtx
    /\ outputGainRef' = startCtx
    /\ isBypassedRef' = FALSE
    /\ isActive' = TRUE
    /\ isBypassed' = FALSE
    /\ op' = "startFinish"
    /\ IF audioContextRef = 0
       THEN /\ currentPitchRatioRef' = One
            /\ activeNote' = ""
            /\ lastNoteRef' = "-"
            /\ port' = <<>>
            /\ posted' = <<>>
            /\ UNCHANGED <<loopVars, lastRun>>
       ELSE \E scaleFreqs \in getScaleFrequencies(startOptions) :
            \E detectedPitch \in DetectedPitches : \E random \in Randoms :
               LET r == RunProcessAudio(startOptions, scaleFreqs,
                            detectedPitch, random, FALSE, correctionModeRef,
                            One, "", "-", TRUE)
               IN  /\ currentPitchRatioRef' = r.ratio
                   /\ activeNote' = r.activeNote
                   /\ lastNoteRef' = r.lastNote
                   /\ port' = r.msgs
                   /\ posted' = r.msgs
                   /\ lastRun' = [r.run EXCEPT !.props = options,
                                                !.launch = options,
                                                !.by = "start"]
                   /\ frames' = Rescheduled(frames, startOptions, options)
                   /\ animationFrameRef' = TRUE
    /\ wTargetRatio' = One
    /\ wWetMix' = One
    /\ wOutputGain' = 2 * One
    /\ UNCHANGED <<soloVars, options, audioContextRef, streamRef,
                   analyserInputRef, liveTracks, openContexts,
                   correctionModeRef, startOptions, startCtx, stopInStart,
                   bypassAsked,
                   blocks, starts, edits>>

\* stop(): the "None" entry of the device menu, or the unmount effect
Stop ==
    /\ op # "stop"
    /\ frames' = IF animationFrameRef THEN {f \in frames : ~f.cur} ELSE frames
    /\ animationFrameRef' = FALSE
    /\ analyserInputRef' = 0
    /\ outputGainRef' = 0
    /\ pitchShifterRef' = 0
    /\ liveTracks' = liveTracks \ {streamRef}
    /\ streamRef' = 0
    /\ openContexts' = openContexts \ {audioContextRef}
    /\ audioContextRef' = 0
    /\ isActive' = FALSE
    /\ isBypassed' = FALSE
    /\ port' = <<>>
    /\ wTargetRatio' = One
    /\ wWetMix' = One
    /\ wOutputGain' = 2 * One
    /\ posted' = <<>>
    /\ op' = "stop"
    /\ stopInStart' = (stopInStart \/ startPc \in {"media", "module"})
    /\ UNCHANGED <<soloVars, options, ctlVars, startPc, startOptions, startCtx,
                   lastRun, bypassAsked, blocks, starts, edits>>

\* the browser runs a callback requestAnimationFrame holds: processAudio of
\* the closure that scheduled it
ProcessAudio ==
    \E f \in frames :
        /\ blocks < MaxBlocks
        /\ blocks' = blocks + 1
        /\ op' = "processAudio"
        /\ IF analyserInputRef = 0 \/ audioContextRef = 0
           THEN /\ frames' = frames \ {f}
                /\ posted' = <<>>
                /\ UNCHANGED <<animationFrameRef, ctlVars, port, lastRun>>
           ELSE \E scaleFreqs \in getScaleFrequencies(f.opts) :
                \E detectedPitch \in DetectedPitches : \E random \in Randoms :
                   LET r == RunProcessAudio(f.opts, scaleFreqs,
                                detectedPitch, random, isBypassedRef,
                                correctionModeRef, currentPitchRatioRef,
                                activeNote, lastNoteRef, pitchShifterRef # 0)
                   IN  /\ Len(port) + Len(r.msgs) <= MaxPort
                       /\ currentPitchRatioRef' = r.ratio
                       /\ activeNote' = r.activeNote
                       /\ lastNoteRef' = r.lastNote
                       /\ port' = port \o r.msgs
                       /\ posted' = r.msgs
                       /\ lastRun' = [r.run EXCEPT !.props = options,
                                                    !.launch = f.launch]
                       /\ frames' = Rescheduled(frames \ {f}, f.opts,
                                                f.launch)
                       /\ animationFrameRef' = TRUE
                       /\ UNCHANGED <<isBypassedRef, correctionModeRef>>
        /\ UNCHANGED <<soloVars, options, isActive, isBypassed, refVars,
                       startVars, wTargetRatio, wWetMix, wOutputGain, bypassAsked,
                       starts, edits>>

\* the worklet receives the oldest message in flight: port.onmessage
PortDeliver ==
    /\ port # <<>>
    /\ wTargetRatio' = OnMessageTargetRatio(wTargetRatio, Head(port))
    /\ wWetMix' = OnMessageWetMix(wWetMix, Head(port))
    /\ wOutputGain' = OnMessageOutputGain(wOutputGain, Head(port))
    /\ port' = Tail(port)
    /\ posted' = <<>>
    /\ op' = "portDeliver"
    /\ UNCHANGED <<soloVars, options, isActive, isBypassed, refVars, loopVars,
                   ctlVars, startVars, lastRun, bypassAsked, blocks, starts,
                   edits>>

Next ==
    \/ SetRetuneSpeed
    \/ SetHumanize
    \/ SetMix
    \/ SetSelectedKey
    \/ SetSelectedScale
    \/ SetCorrectionMode
    \/ SetBypass
    \/ StartBegin
    \/ StartGotMedia
    \/ StartFails
    \/ StartThrows
    \/ StartNoDevice
    \/ StartFinish
    \/ Stop
    \/ ProcessAudio
    \/ PortDeliver

Spec == Init /\ [][Next]_vars

-----------------------------------------------------------------------------
(* Specification of the quantizer: findNearestNote applied to one argument *)
(* under one key and scale                                                  *)

\* the 12 pitch classes and "Db", which the flat spelling of the key menu
\* hands to the hook (TonalSyncPlugin.tsx, NOTES_FLAT)
Keys == {NOTES[i] : i \in 1..Len(NOTES)} \cup {"Db"}

\* the scales of the menu and a name SCALE_PATTERNS does not have
Scales == DOMAIN SCALE_PATTERNS \cup {"Lydian"}

\* arguments of findNearestNote, in hundredths of a hertz
Freqs == {-100, 0, 3000, 5999, 6000, 6001, 8241, 11000, 13081, 22000, 26163,
          26929, 26930, 27000, 44000, 45000, 45290, 88000, 100000, 149999,
          150000, 150001, 200000}

Accepted(inFreq) == ~(inFreq <= 0 \/ inFreq < 6000 \/ inFreq > 150000)

QInit ==
    /\ qOptions \in [selectedKey : Keys, selectedScale : Scales]
    /\ qFreq = 0
    /\ qTable = <<>>
    /\ qResult = NoTarget
    /\ qPc = "call"
    /\ CIdle /\ EngineInit /\ DIdle /\ RestIdle /\ HInit

\* one call of findNearestNote(inFreq); the table is built only for an
\* accepted frequency
QFindNearestNote ==
    /\ qPc = "call"
    /\ \E t \in getScaleFrequencies(qOptions) : \E inFreq \in Freqs :
          /\ qFreq' = inFreq
          /\ qTable' = IF Accepted(inFreq) THEN t ELSE <<>>
          /\ qResult' = findNearestNote(inFreq, t)
    /\ qPc' = "done"
    /\ UNCHANGED <<qOptions, cVars, engineVars, dVars, restVars, hVars>>

QNext == QFindNearestNote

SpecQ == QInit /\ [][QNext]_vars

-----------------------------------------------------------------------------
(* Specification of the correction controller: the runs of one             *)
(* processAudio loop, in the closure start() launched it in (its options   *)
(* stay those of that render), from the ratio 1.0 start() resets           *)

MaxRuns == 2        \* runs of the loop in one behaviour

CRetuneSpeeds == {0, 25, 50, 100}

CHumanizes == {0, 15, 100}

\* what detectPitch returns, in hundredths of a hertz
CPitches == {0, 3000, 26929, 44000, 45000, 200000}

\* what Math.random() returns, in millionths
CRandoms == {0, 999999}

CInit ==
    /\ cOptions \in [retuneSpeed : CRetuneSpeeds, humanize : CHumanizes,
                     mix : {100}, selectedKey : {"C"},
                     selectedScale : {"Major"}]
    /\ cRatio = One
    /\ cRun = NoRun
    /\ cRuns = 0
    /\ QIdle /\ EngineInit /\ DIdle /\ RestIdle /\ HInit

\* one run of processAudio past its guard; the refs isBypassedRef and
\* correctionModeRef hold whatever setBypass and setCorrectionMode left
CProcessAudio ==
    /\ cRuns < MaxRuns
    /\ \E scaleFreqs \in getScaleFrequencies(cOptions) :
       \E detectedPitch \in CPitches : \E random \in CRandoms :
       \E mode \in Modes : \E bypassed \in BOOLEAN :
          LET r == RunProcessAudio(cOptions, scaleFreqs, detectedPitch,
                       random, bypassed, mode, cRatio, "", "-", TRUE)
          IN  /\ cRatio' = r.ratio
              /\ cRun' = r.run
    /\ cRuns' = cRuns + 1
    /\ UNCHANGED <<cOptions, qVars, engineVars, dVars, restVars, hVars>>

CNext == CProcessAudio

SpecC == CInit /\ [][CNext]_vars

-----------------------------------------------------------------------------
(* Specification of a loop fed a steady tone: detectPitch returns the same *)
(* pitch on every frame, the mode and the options of the loop's closure    *)
(* stay as they are, and setBypass is called between frames.  The port and *)
(* the worklet are left to the other specifications.                       *)

MaxFrames == 6      \* frames of the loop in one behaviour
MaxToggles == 2     \* setBypass calls in one behaviour
MaxTones == 1       \* changes of the tone in one behaviour

\* the options of the closure
TOptions ==
    {[retuneSpeed |-> 0, humanize |-> 0, mix |-> 100,
      selectedKey |-> "A", selectedScale |-> "Major"],
     [retuneSpeed |-> 0, humanize |-> 15, mix |-> 100,
      selectedKey |-> "A", selectedScale |-> "Major"],
     [retuneSpeed |-> 100, humanize |-> 0, mix |-> 100,
      selectedKey |-> "C", selectedScale |-> "Major"]}

\* the tones, in hundredths of a hertz
TPitches == {44000, 45000}

BInit ==
    /\ cOptions \in TOptions
    /\ cRatio = One
    /\ cRun = NoRun
    /\ cRuns = 0
    /\ tPitch \in TPitches
    /\ tMode \in Modes
    /\ tBypassed = FALSE
    /\ tTrajectory = <<One>>
    /\ tCorrected = 0
    /\ tToggles = 0
    /\ tTones = 0
    /\ QIdle /\ EngineInit /\ DIdle /\ VInit /\ PInit /\ HInit

\* one run of processAudio past its guard, and the same run of the loop
\* whose bypass was never enabled
BProcessAudio ==
    /\ cRuns < MaxFrames
    /\ \E scaleFreqs \in getScaleFrequencies(cOptions) :
       \E random \in CRandoms :
          LET r == RunProcessAudio(cOptions, scaleFreqs, tPitch, random,
                       tBypassed, tMode, cRatio, "", "-", TRUE)
              s == RunProcessAudio(cOptions, scaleFreqs, tPitch, random,
                       FALSE, tMode, tTrajectory[Len(tTrajectory)], "", "-",
                       TRUE)
          IN  /\ cRatio' = r.ratio
              /\ cRun' = r.run
              /\ tTrajectory' = Append(tTrajectory, s.ratio)
    /\ cRuns' = cRuns + 1
    /\ tCorrected' = IF tBypassed THEN tCorrected ELSE tCorrected + 1
    /\ UNCHANGED <<cOptions, tPitch, tMode, tBypassed, tToggles, tTones,
                   qVars, engineVars, dVars, vVars, pVars, hVars>>

\* setBypass(bypassed): isBypassedRef.current = bypassed
BSetBypass ==
    /\ tToggles < MaxToggles
    /\ \E bypassed \in BOOLEAN : tBypassed' = bypassed
    /\ tToggles' = tToggles + 1
    /\ UNCHANGED <<cVars, tPitch, tMode, tTrajectory, tCorrected, tTones,
                   qVars, engineVars, dVars, vVars, pVars, hVars>>

\* the singer moves to another tone: the steady input begins anew, from the
\* ratio the loop holds
BChangeTone ==
    /\ tTones < MaxTones
    /\ \E pitch \in TPitches \ {tPitch} : tPitch' = pitch
    /\ tTrajectory' = <<cRatio>>
    /\ tCorrected' = 0
    /\ tTones' = tTones + 1
    /\ UNCHANGED <<cVars, tMode, tBypassed, tToggles, qVars, engineVars,
                   dVars, vVars, pVars, hVars>>

BNext ==
    \/ BProcessAudio
    \/ BSetBypass
    \/ BChangeTone

SpecB == BInit /\ [][BNext]_vars

-----------------------------------------------------------------------------
(* Specification of the audio path: the worklet processes blocks and       *)
(* receives messages, and detectPitch is applied to an analysis window     *)

MaxCalls == 3       \* process calls in one behaviour
MaxMessages == 1    \* port messages in one behaviour
MaxWindow == 8      \* samples of an analysis window

\* the sample a block is filled with, in millionths
InputSamples == {0, 250000, -1000000}

\* the messages of the port: those of the correcting branch of processAudio
\* for some ratios and mixes (a ratio below 0.5 to meet the clamp) and the
\* message of setBypass(true)
WMessages ==
    {CorrectionMessage(r, [mix |-> x]) :
         r \in {250000, 900000}, x \in {0, 100}}
        \cup {BypassMessage(TRUE, One, 100)}

\* the samples of an analysis window, in whole units
WindowSamples == {0, 1}

\* the windows handed to detectPitch: the analyser's has fftSize samples, a
\* power of two of at least 32; the search loop needs 4
Windows == UNION {[1..n -> WindowSamples] : n \in 4..MaxWindow}

hookVars == <<options, isActive, isBypassed, refVars, loopVars, ctlVars,
              startVars, port, lastRun, posted, op, bypassAsked, blocks,
              starts, edits>>

\* port.onmessage
WOnMessage ==
    /\ dPc = "idle"
    /\ wMsgs < MaxMessages
    /\ \E m \in WMessages :
          /\ wTargetRatio' = OnMessageTargetRatio(wTargetRatio, m)
          /\ wWetMix' = OnMessageWetMix(wWetMix, m)
          /\ wOutputGain' = OnMessageOutputGain(wOutputGain, m)
    /\ wMsgs' = wMsgs + 1
    /\ UNCHANGED <<qVars, cVars, dVars, restVars, hookVars, wPitchRatio, inputBuffer,
                   inputWritePos, grainReadPos, grainPhase, wOutput, wCall,
                   wCalls>>

\* process(inputs, outputs) with a block of BlockSize samples on channel 0
WProcess ==
    /\ dPc = "idle"
    /\ wCalls < MaxCalls
    /\ \E inputSample \in InputSamples :
          LET ratio == SmoothedPitchRatio(wPitchRatio, wTargetRatio)
              c     == [buffer |-> inputBuffer, base |-> inputWritePos,
                        inputSample |-> inputSample,
                        effectiveRatio |-> ratio, wetMix |-> wWetMix,
                        outputGain |-> wOutputGain]
              st    == ProcessSamples(c, 0, BlockSize - 1,
                           [grainReadPos |-> grainReadPos,
                            grainPhase |-> grainPhase, processed |-> <<>>,
                            output |-> <<>>])
          IN  /\ wPitchRatio' = ratio
              /\ inputBuffer' =
                    [inputBuffer EXCEPT ![inputWritePos \div BlockSize] =
                                             inputSample]
              /\ inputWritePos' = (inputWritePos + BlockSize) % BufSize
              /\ grainReadPos' = st.grainReadPos
              /\ grainPhase' = st.grainPhase
              /\ wOutput' = st.output
              /\ wCall' = [inputSample |-> inputSample,
                           silentBefore |->
                               \A b \in DOMAIN inputBuffer : inputBuffer[b] = 0,
                           wetMix |-> wWetMix, outputGain |-> wOutputGain,
                           processed |-> st.processed]
    /\ wCalls' = wCalls + 1
    /\ UNCHANGED <<qVars, cVars, dVars, restVars, hVars, wMsgs>>

\* detectPitch(buffer, sampleRate) on a window, once the blocks are through
WDetectPitch ==
    /\ dPc = "idle"
    /\ \E buffer \in Windows :
          LET lag == SelectedLag(buffer)
          IN  /\ dWindow' = buffer
              /\ dLag' = lag
              /\ dPitch' = PitchOfLag(lag, Len(buffer) \div 2, SampleRate)
    /\ dPc' = "done"
    /\ dTone' = NoTone
    /\ UNCHANGED <<qVars, cVars, engineVars, restVars, hVars>>

WNext ==
    \/ WOnMessage
    \/ WProcess
    \/ WDetectPitch

SpecW == Init /\ [][WNext]_vars

------------------------------------------------------------------------------
(* The worklet under any message of the port: the handler reads            *)
(* e.data.pitchRatio whatever its value                                    *)

MaxPortMessages == 2    \* port messages in one behaviour

\* values of e.data.pitchRatio: not a number, unbounded, out of the range
\* and within it
PortRatios == {NaN, Infinity, -Infinity, 3 * One, 100000, One, 1500000}

PortMessages == {[pitchRatio |-> r] : r \in PortRatios}

\* port.onmessage with any value of pitchRatio
PortOnMessage ==
    /\ dPc = "idle"
    /\ wMsgs < MaxPortMessages
    /\ \E m \in PortMessages :
          /\ wTargetRatio' = OnMessageTargetRatio(wTargetRatio, m)
          /\ wWetMix' = OnMessageWetMix(wWetMix, m)
          /\ wOutputGain' = OnMessageOutputGain(wOutputGain, m)
    /\ wMsgs' = wMsgs + 1
    /\ UNCHANGED <<qVars, cVars, dVars, restVars, hookVars, wPitchRatio, inputBuffer,
                   inputWritePos, grainReadPos, grainPhase, wOutput, wCall,
                   wCalls>>

PortNext ==
    \/ PortOnMessage
    \/ WProcess

SpecPort == Init /\ [][PortNext]_vars

------------------------------------------------------------------------------
(* The worklet alone, under messages that set any mix and any gain *)

\* messages with a ratio, a wet mix in [0, 1] and an output gain
MixMessages ==
    {[pitchRatio |-> r, wetMix |-> w, outputGain |-> g] :
         r \in {250000, One}, w \in {0, 500000, One},
         g \in {0, One, 2 * One}}

\* port.onmessage with a message of MixMessages
MixOnMessage ==
    /\ dPc = "idle"
    /\ wMsgs < MaxMessages
    /\ \E m \in MixMessages :
          /\ wTargetRatio' = OnMessageTargetRatio(wTargetRatio, m)
          /\ wWetMix' = OnMessageWetMix(wWetMix, m)
          /\ wOutputGain' = OnMessageOutputGain(wOutputGain, m)
    /\ wMsgs' = wMsgs + 1
    /\ UNCHANGED <<qVars, cVars, dVars, restVars, hookVars, wPitchRatio, inputBuffer,
                   inputWritePos, grainReadPos, grainPhase, wOutput, wCall,
                   wCalls>>

MixNext ==
    \/ MixOnMessage
    \/ WProcess

SpecMix == Init /\ [][MixNext]_vars

\* the first variant of the worklet alone
SpecV == Init /\ [][VNext]_vars

\* the pitch history alone
SpecHistory == Init /\ [][HistoryNext]_vars

------------------------------------------------------------------------------
(* detectPitch alone, on the window the analyser holds *)

\* the tones: 60 Hz to 1500 Hz, the ends of the valid range among them
ToneSteps == {6, 8, 11, 22, 44, 88, 100, 120, 148, 150}

TonePhases == {0, 3333}

\* short windows of any shape, the silent ones among them
ShortWindows == [1..8 -> {-1, 0, 1}] \cup [1..12 -> {0, 1}]

\* the analyser holds a window of a tone or a short window
DInit ==
    /\ QIdle /\ CIdle /\ EngineInit /\ RestIdle /\ HInit
    /\ dPitch = 0
    /\ dPc = "idle"
    /\ dLag = NoLag
    /\ \/ \E step \in ToneSteps : \E phase \in TonePhases :
             /\ dTone = [step |-> step, phase |-> phase]
             /\ dWindow = ToneWindow(step, phase)
       \/ /\ dTone = NoTone
          /\ dWindow \in ShortWindows

\* detectPitch(buffer, audioContextRef.current.sampleRate) in processAudio
DDetectPitch ==
    /\ dPc = "idle"
    /\ LET lag == SelectedLag(dWindow)
       IN  /\ dLag' = lag
           /\ dPitch' = PitchOfLag(lag, Len(dWindow) \div 2, SampleRate)
    /\ dPc' = "done"
    /\ UNCHANGED <<qVars, cVars, engineVars, restVars, hVars, dWindow, dTone>>

DNext == DDetectPitch

SpecD == DInit /\ [][DNext]_vars

\* windows of 4 to 10 samples of any shape
SearchWindows ==
    UNION {[1..n -> {0, 1}] : n \in {4, 5, 6, 10}} \cup [1..8 -> {-1, 0, 1}]

\* the first 128 samples of the window of a tone: the search has the lags
\* 2 .. 63 to go through, the period of a tone of 800 Hz or more among them
ShortToneWindow(step, phase) == SubSeq(ToneWindow(step, phase), 1, 128)

\* the analyser holds a window of SearchWindows or the start of a tone
YinInit ==
    /\ QIdle /\ CIdle /\ EngineInit /\ RestIdle /\ HInit
    /\ dPitch = 0
    /\ dPc = "idle"
    /\ dLag = NoLag
    /\ \/ \E step \in 80..150 : \E phase \in {0, 1000, 2500} :
             /\ dTone = [step |-> step, phase |-> phase]
             /\ dWindow = ShortToneWindow(step, phase)
       \/ /\ dTone = NoTone
          /\ dWindow \in SearchWindows

\* detectPitch alone, on short windows of any shape
SpecYin == YinInit /\ [][DNext]_vars

-----------------------------------------------------------------------------
(* Claims about the quantizer, under SpecQ *)

\* the entry of the table that findNearestNote returned
Returned == [note |-> qResult.note, octave |-> qResult.octave]

\* the position of the returned entry in the table
ReturnedAt ==
    CHOOSE k \in 1..Len(qTable) :
        qTable[k].note = qResult.note /\ qTable[k].octave = qResult.octave

QCalled == qPc = "done" /\ Accepted(qFreq)

\* C2: findNearestNote returns the no-target result (pitchRatio 1.0, cents 0,
\* target frequency 0) for every frequency that is <= 0 or outside
\* [60 Hz, 1500 Hz], and a note with a target frequency > 0 for every
\* frequency inside [60 Hz, 1500 Hz].
C2_RejectsOutOfRange ==
    qPc = "done" =>
        IF qFreq <= 0 \/ qFreq < 6000 \/ qFreq > 150000
        THEN qResult.pitchRatio = One /\ qResult.cents = 0 /\ qResult.freq = 0
        ELSE qResult.freq > 0

C2_Witness ==
    qPc = "done" /\ qFreq = 5999 /\ qResult = NoTarget

\* C3: the returned note is at minimal absolute cents distance from the
\* input among all entries of the table: no entry is strictly closer.
C3_NearestIsMinimal ==
    QCalled =>
        \A k \in 1..Len(qTable) :
            qTable[k].freq # NaN =>
                Abs(CentsMilli(qFreq, qTable[k]))
                    >= Abs(CentsMilli(qFreq, Returned))

\* C4 as stated: the reported cents equal 1200*log2(f / freq) recomputed from
\* the returned note, up to floating-point tolerance (here: one unit of the
\* tabulated logarithm), and pitchRatio equals freq / f.
C4_CentsMatchRecomputed ==
    QCalled =>
        /\ Abs(qResult.cents * 1000 - CentsMilli(qFreq, Returned)) <= 1
        /\ qResult.pitchRatio = Ratio(qResult.freq, qFreq * 8)

\* C4 as amended: the reported cents are 1200*log2(f / freq), recomputed
\* from the returned note, rounded to the nearest integer (so they differ
\* from it by at most half a cent), and pitchRatio equals freq / f.
C4_CentsRounded ==
    QCalled =>
        /\ qResult.cents = MathRound(CentsMilli(qFreq, Returned))
        /\ Abs(qResult.cents * 1000 - CentsMilli(qFreq, Returned)) <= 500
        /\ qResult.pitchRatio = Ratio(qResult.freq, qFreq * 8)

C4_Witness ==
    /\ QCalled
    /\ qFreq = 45000
    /\ qResult.cents * 1000 # CentsMilli(qFreq, Returned)

\* C5: a later candidate replaces the current best only when it is strictly
\* closer, so the returned note is strictly closer than every entry before
\* it in the table and at least as close as every entry after it (of two
\* candidates at the same distance the lower one is returned).
C5_FirstFoundWins ==
    QCalled =>
        \A k \in 1..Len(qTable) :
            qTable[k].freq # NaN =>
                /\ k < ReturnedAt =>
                      Abs(CentsMilli(qFreq, qTable[k]))
                          > Abs(CentsMilli(qFreq, Returned))
                /\ k > ReturnedAt =>
                      Abs(CentsMilli(qFreq, qTable[k]))
                          >= Abs(CentsMilli(qFreq, Returned))

\* C6: with an unknown scale name or a key that is not one of the 12 pitch
\* classes, getScaleNotes falls back to the chromatic scale (all 12 pitch
\* classes), and findNearestNote returns a defined note with a finite target
\* frequency and a finite pitchRatio for every accepted frequency.
C6_FallsBackToChromatic ==
    (/\ QCalled
     /\ \/ qOptions.selectedKey \notin {NOTES[i] : i \in 1..Len(NOTES)}
        \/ qOptions.selectedScale \notin DOMAIN SCALE_PATTERNS)
    =>
        /\ {getScaleNotes(qOptions)[i] : i \in DOMAIN getScaleNotes(qOptions)}
              = {NOTES[i] : i \in 1..Len(NOTES)}
        /\ qResult.note \in {NOTES[i] : i \in 1..Len(NOTES)}
        /\ qResult.freq # NaN /\ qResult.freq > 0
        /\ qResult.pitchRatio > 0

-----------------------------------------------------------------------------
(* Claims about the hook, under Spec *)

\* C7: a change of retuneSpeed, humanize, mix, selectedKey or selectedScale
\* made after start() launched the processAudio loop is used by the next run
\* of processAudio: whenever the options of the latest render differ from
\* those at the launch, a frame of the loop computes its scale table,
\* strength, smoothing coefficient and wetMix from the options of the latest
\* render.
C7_NextRunUsesNewOptions ==
    (lastRun.ran /\ lastRun.by = "frame" /\ lastRun.props # lastRun.launch)
        => lastRun.used = lastRun.props

\* a message carries pitchRatio 1.0 and wetMix 0
Neutral(m) ==
    /\ "pitchRatio" \in DOMAIN m /\ m.pitchRatio = One
    /\ "wetMix" \in DOMAIN m /\ m.wetMix = 0

\* C9 as stated: from setBypass(true) until the next setBypass(false), every
\* message posted to the pitch-shifter port carries pitchRatio 1.0 and
\* wetMix 0.
C9_BypassedMessagesNeutral ==
    bypassAsked => \A i \in DOMAIN posted : Neutral(posted[i])

\* C9 as amended: from setBypass(true) until the next setBypass(false) or
\* the next start() that resets the bypass (that is, while isBypassedRef
\* holds), every message posted to the port is the noteStart message or
\* carries pitchRatio 1.0 and wetMix 0; once all are delivered the worklet
\* of the active processor has targetRatio 1 and wetMix 0.
C9_BypassedMessagesAmended ==
    isBypassedRef =>
        /\ \A i \in DOMAIN posted :
              posted[i] = NoteStartMessage \/ Neutral(posted[i])
        /\ (isActive /\ pitchShifterRef # 0 /\ port = <<>>) =>
              (wTargetRatio = One /\ wWetMix = 0)

C9_Witness ==
    /\ isBypassedRef
    /\ op = "processAudio"
    /\ Len(posted) = 2
    /\ posted[1] = NoteStartMessage
    /\ Neutral(posted[2])

\* C10: setBypass(true), setBypass(false) and every processAudio run
\* executed while bypassed leave currentPitchRatioRef unchanged.
C10_BypassKeepsRatio ==
    [][(op' = "setBypass" \/ (op' = "processAudio" /\ isBypassedRef))
          => currentPitchRatioRef' = currentPitchRatioRef]_vars

C10_Witness ==
    /\ op = "processAudio"
    /\ isBypassedRef
    /\ lastRun.bypassed
    /\ lastRun.detectedPitch = 45000
    /\ posted # <<>>
    /\ currentPitchRatioRef # One

-----------------------------------------------------------------------------
(* Claims about the controller, under SpecC *)

\* C8: in one run of processAudio the smoothing step moves
\* currentPitchRatioRef from its previous value towards finalRatio by
\* (1 - smooth) of their distance (to one millionth), never beyond it, the
\* humanize jitter adds at most 0.002 * humanize / 100, and a run that does
\* not correct leaves the ratio as it was.
C8_BoundedStep ==
    cRun.ran =>
        LET step == Mul(Abs(cRun.finalRatio - cRun.previous),
                        One - cRun.smooth)
            lo   == IF cRun.previous < cRun.finalRatio THEN cRun.previous
                    ELSE cRun.finalRatio
            hi   == IF cRun.previous < cRun.finalRatio THEN cRun.finalRatio
                    ELSE cRun.previous
        IN  /\ cRun.corrects =>
                  /\ Abs(cRun.smoothed - cRun.previous) <= step + 1
                  /\ lo <= cRun.smoothed /\ cRun.smoothed <= hi
                  /\ Abs(cRatio - cRun.smoothed) <= 20 * cOptions.humanize
                  /\ Abs(cRatio - cRun.previous)
                         <= step + 1 + 20 * cOptions.humanize
            /\ ~cRun.corrects => cRatio = cRun.previous

C8_Witness ==
    /\ cRuns = 2
    /\ cRun.corrects
    /\ cRun.previous # One
    /\ cRun.finalRatio # cRun.previous
    /\ cRun.smoothed # cRun.previous
    /\ cRun.smoothed # cRun.finalRatio
    /\ cRatio # cRun.smoothed

-----------------------------------------------------------------------------
(* Claims about the audio path, under SpecW *)

Silent(samples) == \A i \in DOMAIN samples : samples[i] = 0

\* C1 as stated: whenever the input is all zeros, process writes an
\* all-zero output block, whatever blocks were processed before, and
\* detectPitch returns 0 for the all-zero analysis window.
C1_SilenceInSilenceOut ==
    /\ (wCalls > 0 /\ wCall.inputSample = 0) => Silent(wOutput)
    /\ (dPc = "done" /\ Silent(dWindow)) => dPitch = 0

\* C1 as amended: process writes an all-zero output block for an all-zero
\* input block when the ring buffer holds only zeros or wetMix is 0, and
\* detectPitch returns 0 for the all-zero analysis window.
C1_SilenceAmended ==
    /\ (/\ wCalls > 0
        /\ wCall.inputSample = 0
        /\ (wCall.silentBefore \/ wCall.wetMix = 0)) => Silent(wOutput)
    /\ (dPc = "done" /\ Silent(dWindow)) => dPitch = 0

C1_Witness ==
    /\ wCalls > 1
    /\ wCall.inputSample = 0
    /\ wCall.wetMix = 0
    /\ ~wCall.silentBefore
    /\ Len(wOutput) = BlockSize
    /\ Silent(wOutput)
    /\ dPc = "done"
    /\ Len(dWindow) = MaxWindow
    /\ Silent(dWindow)
    /\ dPitch = 0

-----------------------------------------------------------------------------
(* Claims about a loop fed a steady tone, under SpecB *)

\* the ratio the loop moves to while it corrects the tone: finalRatio
TTarget ==
    LET scaleFreqs == CHOOSE t \in getScaleFrequencies(cOptions) : TRUE
        near       == findNearestNote(tPitch, scaleFreqs)
    IN  IF Corrects(tPitch, near.freq, FALSE)
        THEN FinalRatio(tMode, cOptions.retuneSpeed, near.cents,
                        near.pitchRatio)
        ELSE One

\* C11: with a steady tone, a constant mode and retune speed and humanize 0,
\* the ratio of the loop whose bypass was enabled and disabled is the ratio
\* the never-bypassed loop had after as many frames as this loop ran with
\* bypass off (the sequence goes on from the value held when bypass began),
\* and every step of that sequence brings the ratio closer to the same
\* finalRatio by the factor smooth: both converge to it.
C11_BypassKeepsTrajectory ==
    cOptions.humanize = 0 =>
        /\ tCorrected + 1 <= Len(tTrajectory)
        /\ cRatio = tTrajectory[tCorrected + 1]
        /\ \A k \in 1..(Len(tTrajectory) - 1) :
              Abs(tTrajectory[k + 1] - TTarget)
                  <= Mul(Abs(tTrajectory[k] - TTarget),
                         SmoothOf(tMode, cOptions.retuneSpeed)) + 1

\* bypass was enabled, frames ran, bypass was disabled, and the ratio has
\* reached the value the never-bypassed loop has reached
C11_Witness ==
    /\ cOptions.humanize = 0
    /\ tToggles = 2
    /\ ~tBypassed
    /\ cRun.ran /\ cRun.corrects
    /\ tCorrected < cRuns
    /\ cRatio # One
    /\ tTrajectory[1] = One
    /\ Abs(cRatio - TTarget) <= 1
    /\ Abs(tTrajectory[Len(tTrajectory)] - TTarget) <= 1

\* the round trip's setting: 440 Hz, key A, scale Major, retuneSpeed 0,
\* Classic mode
RoundTrip ==
    /\ tPitch = 44000
    /\ cOptions.selectedKey = "A"
    /\ cOptions.selectedScale = "Major"
    /\ cOptions.retuneSpeed = 0
    /\ tMode = "classic"

-----------------------------------------------------------------------------
(* Claims about the correction controller, second part, under SpecC *)

\* C12: a run with no valid target (detected pitch 0, or a detected pitch
\* findNearestNote gives the target frequency 0 for) posts one message to
\* the pitch shifter, with pitchRatio exactly 1.0, and leaves
\* currentPitchRatioRef as it was.
C12_NoTargetSendsUnity ==
    (cRun.ran /\ (cRun.detectedPitch = 0 \/ cRun.targetFreq = 0)) =>
        /\ Len(cRun.posted) = 1
        /\ "pitchRatio" \in DOMAIN cRun.posted[1]
        /\ cRun.posted[1].pitchRatio = One
        /\ cRatio = cRun.previous

\* a run with a detected pitch out of range, after a run that moved the
\* ratio away from 1
C12_Witness ==
    /\ cRun.ran
    /\ cRun.detectedPitch = 200000
    /\ cRun.targetFreq = 0
    /\ ~cRun.bypassed
    /\ cRun.previous # One
    /\ cRun.posted[1].pitchRatio = One

------------------------------------------------------------------------------
(* Claims about the worklet under any port message, under SpecPort *)

\* C13: after any sequence of port messages and process calls the worklet's
\* targetRatio and its smoothed pitchRatio are finite and within [0.5, 2.0]
C13_RatiosFiniteInRange ==
    /\ wTargetRatio # NaN
    /\ wPitchRatio # NaN
    /\ One \div 2 <= wTargetRatio /\ wTargetRatio <= 2 * One
    /\ One \div 2 <= wPitchRatio /\ wPitchRatio <= 2 * One

------------------------------------------------------------------------------
(* Claims about the output stage of the worklet, under SpecMix *)

\* the samples of the last block before and after the output stage
Dry == wCall.inputSample
WetDry(i) == Mul(wCall.processed[i], wCall.wetMix) + Mul(Dry, One - wCall.wetMix)

C16_OutputWithinUnity ==
    \A i \in 1..Len(wOutput) : Abs(wOutput[i]) <= One

\* a sample whose mix times gain was beyond unity went through the soft clip
C16_Witness ==
    /\ wCalls > 0
    /\ \E i \in 1..Len(wOutput) :
          /\ Abs(Mul(WetDry(i), wCall.outputGain)) > One
          /\ Abs(wOutput[i]) < One

------------------------------------------------------------------------------
(* Claims about the first variant of the worklet, under SpecV *)

\* C14: whenever pitchRatio is 1.0 for a block of PitchShifterProcessor,
\* every output sample equals the input sample at the same index, whatever
\* the earlier ratios were
C14_UnityRatioPassesInput ==
    (vCalls > 0 /\ vCall.pitchRatio = One) =>
        \A i \in 1..Len(vOutput) : vOutput[i] = vCall.inputChannel[i]

------------------------------------------------------------------------------
(* Claims about the pitch history, under SpecHistory *)

\* the entry the last run appended, and the history with it before the cut
Appended == pitchHistoryRef[Len(pitchHistoryRef)]
Uncut == Append(pRun.before, Appended)

\* the history is the end of the one before with the new entry appended
OldestDropped ==
    LET k == Len(Uncut) - Len(pitchHistoryRef)
    IN  /\ k >= 0
        /\ \A i \in 1..Len(pitchHistoryRef) : pitchHistoryRef[i] = Uncut[k + i]

\* the clock has not stepped back over the entries held before the run
ClockForward ==
    /\ \A i \in 1..(Len(pRun.before) - 1) :
          pRun.before[i].time <= pRun.before[i + 1].time
    /\ pRun.before # <<>> => pRun.before[Len(pRun.before)].time <= pRun.now

\* C17 as stated: after a run the history has at most 300 entries, each
\* less than 5000 ms older than the run's time, the run's entry is the last
\* and only the oldest entries were dropped
C17_HistoryIsBoundedFifo ==
    pRun.ran =>
        /\ Len(pitchHistoryRef) <= 300
        /\ \A i \in 1..Len(pitchHistoryRef) :
              pRun.now - pitchHistoryRef[i].time < 5000
        /\ Appended.time = pRun.now
        /\ OldestDropped

\* C17, amended: the same, with only the oldest entries dropped provided
\* the clock has not stepped back over the entries held
C17_HistoryBoundedFifoIfClockForward ==
    pRun.ran =>
        /\ Len(pitchHistoryRef) <= 300
        /\ \A i \in 1..Len(pitchHistoryRef) :
              pRun.now - pitchHistoryRef[i].time < 5000
        /\ Appended.time = pRun.now
        /\ ClockForward => OldestDropped

\* the run that met the cap: 300 entries before, 300 after, the oldest gone
C17_Witness ==
    /\ pRun.ran
    /\ Len(pRun.before) = 300
    /\ Len(pitchHistoryRef) = 300
    /\ pitchHistoryRef[1] = pRun.before[2]
    /\ Appended.time = pRun.now

------------------------------------------------------------------------------
(* Claims about detectPitch, under SpecD *)

\* C19: for a window of a pure sine of f hertz, 60 <= f <= 1500, detectPitch
\* returns a value within 1 % of f
C19_ToneWithinOnePercent ==
    (dPc = "done" /\ dTone.step > 0) =>
        /\ dPitch # NaN
        /\ Abs(dPitch - 1000 * dTone.step) * 100 <= 1000 * dTone.step

\* the tone of 60 Hz, the low end of the range, was detected
C19_Witness ==
    /\ dPc = "done"
    /\ dTone.step = 6
    /\ dLag.tau \in 799..801
    /\ dPitch > 0

\* C20: for every window detectPitch returns a finite number >= 0: a window
\* whose running sum is 0 gives 0, and the denominator of the interpolation
\* is not 0 at the selected lag
C20_PitchFiniteNonNegative ==
    dPc = "done" =>
        /\ dPitch # NaN
        /\ dPitch # Infinity
        /\ dPitch >= 0
        /\ (\A i \in 1..Len(dWindow) : dWindow[i] = dWindow[1]) => dPitch = 0
        /\ (dLag.tau > 0 /\ dLag.tau < Len(dWindow) \div 2 - 1)
               => Interpolation(dLag.s0, dLag.s1, dLag.s2).q # 0

\* a silent window, whose running sum stays 0, gave 0
C20_Witness ==
    /\ dPc = "done"
    /\ Len(dWindow) = 8
    /\ \A i \in 1..8 : dWindow[i] = 0
    /\ dLag.s0 = YinOne
    /\ dPitch = 0

------------------------------------------------------------------------------
(* Claims about the search of detectPitch, under SpecYin *)

\* yinBuffer[tau] of the window held, from the differences at 1 .. tau
YinAt(tau) ==
    LET halfSize == Len(dWindow) \div 2
        sum      == BagCardinality([t \in 1..tau |->
                        Difference(dWindow, halfSize, t) + 1]) - tau
    IN  Normalised(Difference(dWindow, halfSize, tau), tau, sum)

\* the lags of [2, N/2) whose normalised difference is below 0.1
SubThreshold ==
    {tau \in 2..(Len(dWindow) \div 2 - 1) : 10 * YinAt(tau) < YinOne}

\* C21: detectPitch returns 0 exactly when no lag of [2, N/2) has a
\* normalised difference below 0.1; otherwise the lag it refines is the last
\* index of the strictly decreasing run of the normalised difference that
\* starts at the first sub-threshold lag
C21_FirstMinimumAfterCrossing ==
    dPc = "done" =>
        LET halfSize == Len(dWindow) \div 2
            yin      == [tau \in 1..(halfSize - 1) |-> YinAt(tau)]
        IN  /\ dPitch = 0 <=> SubThreshold = {}
            /\ SubThreshold # {} =>
                  LET first == CHOOSE tau \in SubThreshold :
                                   \A other \in SubThreshold : tau <= other
                  IN  /\ dLag.tau \in first..(halfSize - 1)
                      /\ \A tau \in first..(dLag.tau - 1) :
                            yin[tau + 1] < yin[tau]
                      /\ dLag.tau + 1 < halfSize
                            => yin[dLag.tau + 1] >= yin[dLag.tau]

\* the search went down a run of two steps from the first sub-threshold lag
C21_Witness ==
    /\ dPc = "done"
    /\ SubThreshold # {}
    /\ dLag.tau - 2 \in SubThreshold
    /\ \A tau \in 2..(dLag.tau - 3) : tau \notin SubThreshold
    /\ dPitch > 0

------------------------------------------------------------------------------
(* Claims about the two correction modes, under SpecC *)

\* the values of the retuneSpeed knob
RetuneSpeedRange == 0..100

\* C22: in Classic mode, for every retuneSpeed in [0, 100], the target ratio
\* is 1 + (pitchRatio - 1) * strength with strength within 85 % .. 100 %;
\* the strength falls by at most 0.1 % per step of retuneSpeed
C22_ClassicStrengthHigh ==
    /\ \A r \in RetuneSpeedRange :
          /\ 850000 <= ClassicStrength(r) /\ ClassicStrength(r) <= One
          /\ r < 100 =>
                /\ ClassicStrength(r + 1) <= ClassicStrength(r)
                /\ ClassicStrength(r) - ClassicStrength(r + 1) <= 1000
    /\ (cRun.ran /\ cRun.corrects /\ cRun.mode = "classic") =>
          LET offset == cRun.pitchRatio - One
          IN  /\ cRun.finalRatio
                     = One + Mul(offset, ClassicStrength(cOptions.retuneSpeed))
              /\ Abs(cRun.finalRatio - One) <= Abs(offset)
              /\ Abs(cRun.finalRatio - One) >= Mul(Abs(offset), 850000) - 1
              /\ offset > 0 => cRun.finalRatio >= One
              /\ offset < 0 => cRun.finalRatio <= One

\* a Classic run at retuneSpeed 100 on a pitch off its target
C22_Witness ==
    /\ cRun.ran /\ cRun.corrects
    /\ cRun.mode = "classic"
    /\ cOptions.retuneSpeed = 100
    /\ cRun.pitchRatio # One
    /\ cRun.finalRatio # cRun.pitchRatio
    /\ cRun.finalRatio # One

\* C23: in Modern mode, whenever |cents| is not above the threshold the
\* target ratio is exactly 1; the threshold is non-decreasing in retuneSpeed
\* over [0, 100]; when |cents| exceeds it the target ratio is
\* 1 + (pitchRatio - 1) * strength with a strength non-increasing in
\* retuneSpeed
C23_ModernFlexTune ==
    /\ \A r \in RetuneSpeedRange :
          r < 100 =>
              /\ ModernThreshold(r) <= ModernThreshold(r + 1)
              /\ ModernStrength(r + 1) <= ModernStrength(r)
    /\ (cRun.ran /\ cRun.corrects /\ cRun.mode = "modern") =>
          LET threshold == ModernThreshold(cOptions.retuneSpeed)
          IN  /\ 100 * Abs(cRun.cents) <= threshold => cRun.finalRatio = One
              /\ 100 * Abs(cRun.cents) > threshold =>
                    cRun.finalRatio
                        = One + Mul(cRun.pitchRatio - One,
                                    ModernStrength(cOptions.retuneSpeed))

\* a Modern run that left a pitch 39 cents off alone: retuneSpeed 100 puts
\* the threshold at 43 cents
C23_Witness ==
    /\ cRun.ran /\ cRun.corrects
    /\ cRun.mode = "modern"
    /\ cOptions.retuneSpeed = 100
    /\ Abs(cRun.cents) = 39
    /\ cRun.pitchRatio # One
    /\ cRun.finalRatio = One

\* C24: for every pair of retune speeds the smoothing coefficient of Classic
\* is strictly smaller than the one of Modern and both lie in [0, 1); a
\* smoothing step leaves smooth times the distance to the target, so it
\* moves the ratio strictly closer to a target that differs (by more than
\* the two millionths the model resolves)
C24_ClassicSmoothsLess ==
    /\ \A r1 \in RetuneSpeedRange :
          /\ 0 <= ClassicSmooth(r1) /\ ClassicSmooth(r1) < One
          /\ 0 <= ModernSmooth(r1) /\ ModernSmooth(r1) < One
          /\ \A r2 \in RetuneSpeedRange : ClassicSmooth(r1) < ModernSmooth(r2)
    /\ (cRun.ran /\ cRun.corrects) =>
          LET before == Abs(cRun.finalRatio - cRun.previous)
              after  == Abs(cRun.finalRatio - cRun.smoothed)
          IN  /\ cRun.smooth = IF cRun.mode = "classic"
                               THEN ClassicSmooth(cOptions.retuneSpeed)
                               ELSE ModernSmooth(cOptions.retuneSpeed)
              /\ after <= Mul(before, cRun.smooth) + 1
              /\ before > 2 => after < before

\* a run that moved the ratio part of the way to a target that differed
C24_Witness ==
    /\ cRun.ran /\ cRun.corrects
    /\ cRun.mode = "modern"
    /\ Abs(cRun.finalRatio - cRun.previous) > 2
    /\ cRun.smoothed # cRun.finalRatio
    /\ Abs(cRun.finalRatio - cRun.smoothed)
           < Abs(cRun.finalRatio - cRun.previous)

------------------------------------------------------------------------------
(* Specification of two processAudio loops that differ in the history      *)
(* they start from                                                         *)

MaxTwinRuns == 2    \* runs of each of the two loops in one behaviour

\* contents of pitchHistoryRef.current a loop may find
TwinHistories ==
    {<<>>,
     <<[input |-> 45000, corrected |-> 44000, time |-> -16]>>,
     <<[input |-> 26929, corrected |-> 26163, time |-> -6000],
       [input |-> 44000, corrected |-> 44000, time |-> -16]>>}

\* what detectPitch returns to both loops, in hundredths of a hertz
TwinPitches == {0, 44000, 45000}

\* both loops after a run: ran[i] is what the run of loop i leaves
TwinRan(ran) ==
    /\ twinHistory' = [i \in 1..2 |-> ran[i].history]
    /\ twinRatio' = [i \in 1..2 |-> ran[i].ratio]
    /\ twinNotes' = [i \in 1..2 |-> [activeNote |-> ran[i].activeNote,
                                     lastNote   |-> ran[i].lastNote]]
    /\ twinPosted' = [i \in 1..2 |-> ran[i].posted]

\* the same frame in both loops: the same detected pitch, Math.random(),
\* refs and Date.now()
TwinProcessAudio ==
    /\ twinRuns < MaxTwinRuns
    /\ \E scaleFreqs \in getScaleFrequencies(twinOptions) :
       \E detectedPitch \in TwinPitches : \E random \in CRandoms :
       \E mode \in Modes : \E bypassed \in BOOLEAN :
          TwinRan([i \in 1..2 |->
                      ProcessAudioOnce(
                          [history    |-> twinHistory[i],
                           ratio      |-> twinRatio[i],
                           activeNote |-> twinNotes[i].activeNote,
                           lastNote   |-> twinNotes[i].lastNote],
                          twinOptions, scaleFreqs, detectedPitch, random,
                          bypassed, mode, twinClock + 16)])
    /\ twinClock' = twinClock + 16
    /\ twinRuns' = twinRuns + 1
    /\ UNCHANGED <<twinOptions, pitchHistoryRef, clock, pRun, pRuns, pJumps,
                   pPeriod, gainVars, ringVars, qVars, cVars, engineVars,
                   dVars, tVars, vVars, hVars>>

TwinNext == TwinProcessAudio

TwinInit ==
    /\ QIdle /\ CIdle /\ EngineInit /\ DIdle /\ TIdle /\ VInit /\ HInit
    /\ pitchHistoryRef = <<>>
    /\ clock = 0
    /\ pRun = [ran |-> FALSE, now |-> 0, before |-> <<>>]
    /\ pRuns = 0
    /\ pJumps = 0
    /\ pPeriod = 16
    /\ twinOptions \in [retuneSpeed : {0, 100}, humanize : {0, 100},
                        mix : {100}, selectedKey : {"C"},
                        selectedScale : {"Major"}]
    /\ twinHistory \in {h \in [1..2 -> TwinHistories] : h[1] # h[2]}
    /\ twinRatio = [i \in 1..2 |-> One]
    /\ twinNotes = [i \in 1..2 |-> [activeNote |-> "", lastNote |-> "-"]]
    /\ twinPosted = [i \in 1..2 |-> <<>>]
    /\ twinClock = 0
    /\ twinRuns = 0
    /\ gMonitoring = TRUE
    /\ gBypassed = FALSE
    /\ gVolume = 750000
    /\ gTarget = 0
    /\ gState = [isMonitoring |-> TRUE, isBypassed |-> FALSE,
                 monitorVolume |-> 75]
    /\ gPosted = <<>>
    /\ gSeen = {}
    /\ gCalls = 0
    /\ RingIdle

SpecTwin == TwinInit /\ [][TwinNext]_vars

\* C25: two loops that receive the same detected pitches, parameters and
\* refs but start from different pitchHistory contents hold the same
\* currentPitchRatioRef and post the same messages at every run
C25_HistoryDoesNotFeedBack ==
    /\ twinRatio[1] = twinRatio[2]
    /\ twinPosted[1] = twinPosted[2]
    /\ twinNotes[1] = twinNotes[2]

\* after a voiced and an unvoiced frame the histories still differ and the
\* ratio has left 1
C25_Witness ==
    /\ twinRuns >= 2
    /\ twinHistory[1] # twinHistory[2]
    /\ twinRatio[1] # One
    /\ twinPosted[1] # <<>>
    /\ \E i \in 1..2 :
          /\ Len(twinHistory[i]) >= 2
          /\ twinHistory[i][Len(twinHistory[i])].input
                 = twinHistory[i][Len(twinHistory[i]) - 1].input
          /\ twinHistory[i][Len(twinHistory[i])].time = twinClock

------------------------------------------------------------------------------
(* Claims about start() and stop(), under Spec *)

\* no media-stream track is live and the hook references no audio node,
\* stream or AudioContext
NothingHeld ==
    /\ liveTracks = {}
    /\ audioContextRef = 0
    /\ streamRef = 0
    /\ analyserInputRef = 0
    /\ pitchShifterRef = 0
    /\ outputGainRef = 0

\* C26 as stated: if stop() runs while a start() call is suspended at one
\* of its awaits, then once both calls have finished isActive is false, no
\* track is live, no node or AudioContext is referenced and no processing
\* loop is scheduled; isActive is never true without a scheduled
\* processAudio loop.
C26_StopDuringStartLeavesInactive ==
    /\ (stopInStart /\ startPc = "idle") =>
          (~isActive /\ NothingHeld /\ frames = {} /\ ~animationFrameRef)
    /\ isActive => frames # {}

\* C27 as stated: if start() rejects (no device selected, getUserMedia
\* fails or the worklet module fails to load), isActive is false,
\* audioContextRef and streamRef are null, no track is live and no audio
\* node is referenced.
C27_RejectedStartLeavesNothing ==
    op \in {"startNoDevice", "startFails"} => (~isActive /\ NothingHeld)

------------------------------------------------------------------------------
(* Specification of the monitor controls: setMonitorVolume, setMonitoring  *)
(* and setBypass of the hook while it is active (outputGainRef and         *)
(* audioContextRef are set), the ratio at 1.0 and the mix at 100           *)

MaxGainCalls == 3   \* setter calls in one behaviour

\* arguments of setMonitorVolume: the slider's range and values outside it
GainVolumes == {-10, 0, 50, 75, 100, 150}

\* Math.max(0, Math.min(100, volume)) / 100, in millionths
Normalized(volume) ==
    (IF volume < 0 THEN 0 ELSE IF volume > 100 THEN 100 ELSE volume) * 10000

\* volume * 1.5
Boosted(volume) == (volume * 3) \div 2

\* the gain target setMonitorVolume and setMonitoring set
MonitorTarget(monitoring, bypassed, volume) ==
    IF monitoring /\ ~bypassed THEN Boosted(volume) ELSE 0

\* the gain target setBypass sets
BypassTarget(monitoring, volume) == IF monitoring THEN Boosted(volume) ELSE 0

\* the state and the gain target after a call
Seen(state, target) == [state |-> state, target |-> target]

\* the hook after start(): the reset of lines 1454-1470 and the gain value
\* of line 1440; monitorVolumeRef holds what setMonitorVolume stored before
GainInit ==
    /\ QIdle /\ CIdle /\ EngineInit /\ DIdle /\ TIdle /\ VInit /\ HInit
    /\ pitchHistoryRef = <<>>
    /\ clock = 0
    /\ pRun = [ran |-> FALSE, now |-> 0, before |-> <<>>]
    /\ pRuns = 0
    /\ pJumps = 0
    /\ pPeriod = 16
    /\ twinOptions = DefaultOptions
    /\ twinHistory = [i \in 1..2 |-> <<>>]
    /\ twinRatio = [i \in 1..2 |-> One]
    /\ twinNotes = [i \in 1..2 |-> [activeNote |-> "", lastNote |-> "-"]]
    /\ twinPosted = [i \in 1..2 |-> <<>>]
    /\ twinClock = 0
    /\ twinRuns = 0
    /\ gMonitoring = TRUE
    /\ gBypassed = FALSE
    /\ \E volume \in {50, 75, 100} :
          /\ gVolume = Normalized(volume)
          /\ gTarget = Boosted(Normalized(volume))
          /\ gState = [isMonitoring |-> TRUE, isBypassed |-> FALSE,
                       monitorVolume |-> volume]
          /\ gSeen = {Seen([isMonitoring |-> TRUE, isBypassed |-> FALSE,
                            monitorVolume |-> volume],
                           Boosted(Normalized(volume)))}
    /\ gPosted = <<>>
    /\ gCalls = 0
    /\ RingIdle

\* what every call leaves alone
GainRest ==
    /\ gCalls < MaxGainCalls
    /\ gCalls' = gCalls + 1
    /\ gSeen' = gSeen \cup {Seen(gState', gTarget')}
    /\ UNCHANGED <<pitchHistoryRef, clock, pRun, pRuns, pJumps, pPeriod,
                   twinVars, ringVars, qVars, cVars, engineVars, dVars, tVars,
                   vVars, hVars>>

\* setMonitorVolume(volume)
GainSetMonitorVolume ==
    /\ \E volume \in GainVolumes :
          /\ gVolume' = Normalized(volume)
          /\ gTarget' = MonitorTarget(gMonitoring, gBypassed,
                                      Normalized(volume))
          /\ gState' = [gState EXCEPT !.monitorVolume = volume]
    /\ gPosted' = <<>>
    /\ UNCHANGED <<gMonitoring, gBypassed>>
    /\ GainRest

\* setMonitoring(enabled)
GainSetMonitoring ==
    /\ \E enabled \in BOOLEAN :
          /\ gMonitoring' = enabled
          /\ gTarget' = MonitorTarget(enabled, gBypassed, gVolume)
          /\ gState' = [gState EXCEPT !.isMonitoring = enabled]
    /\ gPosted' = <<>>
    /\ UNCHANGED <<gBypassed, gVolume>>
    /\ GainRest

\* setBypass(bypassed)
GainSetBypass ==
    /\ \E bypassed \in BOOLEAN :
          /\ gBypassed' = bypassed
          /\ gPosted' = <<BypassMessage(bypassed, One, 100)>>
          /\ gTarget' = BypassTarget(gMonitoring, gVolume)
          /\ gState' = [gState EXCEPT !.isBypassed = bypassed]
    /\ UNCHANGED <<gMonitoring, gVolume>>
    /\ GainRest

GainNext ==
    \/ GainSetMonitorVolume
    \/ GainSetMonitoring
    \/ GainSetBypass

SpecGain == GainInit /\ [][GainNext]_vars

\* C28 as stated: while active, the output gain target is determined by the
\* current values of (isMonitoring, isBypassed, monitorVolume) alone: two
\* sequences of setter calls that end with the same three values leave the
\* same gain target; with monitoring enabled (and a volume above 0) the
\* gain target is above 0 while bypassed.
C28_GainFollowsState ==
    /\ \A p \in gSeen : \A q \in gSeen :
          p.state = q.state => p.target = q.target
    /\ (gState.isMonitoring /\ gState.isBypassed /\ gState.monitorVolume > 0)
          => gTarget > 0

------------------------------------------------------------------------------
(* Specification of the positions of NaturalPitchShifterProcessor: blocks  *)
(* of one sample value, vibrato depth 0, one port message                  *)

MaxRingCalls == 70      \* process calls in one behaviour
MaxRingMessages == 1    \* port messages in one behaviour

\* event.data.pitchRatio: an octave down, a semitone up, an octave up
RingRatios == {500000, 1059463, 2 * One}

\* how many calls were made when the message arrives
RingMessageCalls == {0, 17, 40}

Lowest(a, b) == IF a < b THEN a ELSE b

Highest(a, b) == IF a > b THEN a ELSE b

RECURSIVE LowestOf(_, _)
LowestOf(f, n) == IF n = 1 THEN f[1] ELSE Lowest(f[n], LowestOf(f, n - 1))

RECURSIVE HighestOf(_, _)
HighestOf(f, n) == IF n = 1 THEN f[1] ELSE Highest(f[n], HighestOf(f, n - 1))

\* the body of the sample loop at index i, as ProcessSample, with the
\* indices it uses: written is the number of samples written before the
\* call, st.abs the read position of each grain in samples since
\* construction (the slot it reads is that position modulo bufSize) and
\* st.use the extremes so far.  lead is how far the slot of s0 is ahead of
\* the sample written last, leadNext the same for s1.
RingSample(c, i, written, st) ==
    LET grains   == 1..NumGrains
        gs       == [g \in grains |->
                        Grain(c, i, st.grainReadPos[g], st.grainPhase[g])]
        writeIdx == c.base + i
        writePos == (writeIdx + 1) % BufSize
        newest   == written + i
        readIdx  == [g \in grains |-> JsRem(st.grainReadPos[g].i, BufSize)]
        nextIdx  == [g \in grains |-> (readIdx[g] + 1) % BufSize]
        wraps    == [g \in grains |-> st.grainPhase[g] + 1 >= GrainSize]
        ahead    == [g \in grains |-> st.abs[g].i - newest]
        fresh    == [g \in grains |->
                        IF st.abs[g].reset THEN -BufSize ELSE ahead[g]]
        later    == [g \in grains |->
                        IF st.abs[g].reset THEN ahead[g] ELSE -BufSize]
        stored   == [g \in grains |-> gs[g].readPos.i]
        phases   == [g \in grains |-> st.grainPhase[g]]
        u        == st.use
    IN  [grainReadPos |-> [g \in grains |-> gs[g].readPos],
         grainPhase   |-> [g \in grains |-> gs[g].phase],
         abs |-> [g \in grains |->
                    [i |-> (IF wraps[g] THEN newest + 1 - GrainSize
                            ELSE st.abs[g].i)
                           + ((IF wraps[g] THEN 0
                               ELSE st.grainReadPos[g].f)
                              + c.effectiveRatio) \div One,
                     reset |-> st.abs[g].reset \/ wraps[g]]],
         use |-> [writeLow  |-> Lowest(u.writeLow, Lowest(writeIdx, writePos)),
                  writeHigh |-> Highest(u.writeHigh,
                                        Highest(writeIdx, writePos)),
                  posLow    |-> Lowest(u.posLow, LowestOf(stored, NumGrains)),
                  posHigh   |-> Highest(u.posHigh,
                                        HighestOf(stored, NumGrains)),
                  idxLow    |-> Lowest(u.idxLow,
                                   Lowest(LowestOf(readIdx, NumGrains),
                                          LowestOf(nextIdx, NumGrains))),
                  idxHigh   |-> Highest(u.idxHigh,
                                   Highest(HighestOf(readIdx, NumGrains),
                                           HighestOf(nextIdx, NumGrains))),
                  phaseLow  |-> Lowest(u.phaseLow,
                                       LowestOf(phases, NumGrains)),
                  phaseHigh |-> Highest(u.phaseHigh,
                                        HighestOf(phases, NumGrains)),
                  lead      |-> Highest(u.lead, HighestOf(fresh, NumGrains)),
                  leadNext  |-> Highest(u.leadNext,
                                        HighestOf(fresh, NumGrains) + 1),
                  leadReset |-> Highest(u.leadReset,
                                        HighestOf(later, NumGrains)),
                  leadNextReset |-> Highest(u.leadNextReset,
                                        HighestOf(later, NumGrains) + 1),
                  resets    |-> u.resets
                                  + Cardinality({g \in grains : wraps[g]})],
         done |-> i + 1]

\* the sample loop for i = lo .. hi, the first half before the second
RECURSIVE RingSamples(_, _, _, _, _)
RingSamples(c, lo, hi, written, st) ==
    IF lo = hi THEN RingSample(c, lo, written, st)
    ELSE LET mid   == (lo + hi) \div 2
             first == RingSamples(c, lo, mid, written, st)
         IN  IF first.done > mid
             THEN RingSamples(c, mid + 1, hi, written, first)
             ELSE first

\* port.onmessage with a pitchRatio
RingOnMessage ==
    /\ ringMsgs < MaxRingMessages
    /\ wCalls \in RingMessageCalls
    /\ \E r \in RingRatios :
          wTargetRatio' = OnMessageTargetRatio(wTargetRatio,
                                               [pitchRatio |-> r])
    /\ ringMsgs' = ringMsgs + 1
    /\ UNCHANGED <<qVars, cVars, dVars, tVars, vVars, pitchHistoryRef, clock,
                   pRun, pRuns, pJumps, pPeriod, twinVars, gainVars, ringAbs,
                   ringUse, hookVars, wWetMix, wOutputGain, engineVars>>

\* process(inputs, outputs) with a block of BlockSize samples on channel 0
RingProcess ==
    /\ wCalls < MaxRingCalls
    /\ LET ratio == SmoothedPitchRatio(wPitchRatio, wTargetRatio)
           c     == [buffer |-> inputBuffer, base |-> inputWritePos,
                     inputSample |-> 250000,
                     effectiveRatio |-> ratio, wetMix |-> wWetMix,
                     outputGain |-> wOutputGain]
           st    == RingSamples(c, 0, BlockSize - 1, wCalls * BlockSize,
                        [grainReadPos |-> grainReadPos,
                         grainPhase |-> grainPhase, abs |-> ringAbs,
                         use |-> ringUse, done |-> 0])
       IN  /\ wPitchRatio' = ratio
           /\ inputBuffer' =
                 [inputBuffer EXCEPT ![inputWritePos \div BlockSize] = 250000]
           /\ inputWritePos' = (inputWritePos + BlockSize) % BufSize
           /\ grainReadPos' = st.grainReadPos
           /\ grainPhase' = st.grainPhase
           /\ ringAbs' = st.abs
           /\ ringUse' = st.use
    /\ wCalls' = wCalls + 1
    /\ UNCHANGED <<qVars, cVars, dVars, tVars, vVars, pitchHistoryRef, clock,
                   pRun, pRuns, pJumps, pPeriod, twinVars, gainVars, ringMsgs,
                   hVars, wOutput, wCall, wMsgs>>

RingNext ==
    \/ RingOnMessage
    \/ RingProcess

SpecRing == Init /\ [][RingNext]_vars

\* C29: after any number of process() calls with target ratios in
\* [0.5, 2.0] and vibrato depth 0, every index used is within its array:
\* 0 <= inputWritePos < bufSize, 0 <= grainReadPos[g] < bufSize, both
\* interpolation indices are in [0, bufSize) and the window index of every
\* grain is in [0, grainSize).
C29_IndicesWithinArrays ==
    /\ 0 <= inputWritePos /\ inputWritePos < BufSize
    /\ 0 <= ringUse.writeLow /\ ringUse.writeHigh < BufSize
    /\ \A g \in 1..NumGrains :
          /\ 0 <= grainReadPos[g].i /\ grainReadPos[g].i < BufSize
          /\ 0 <= grainReadPos[g].f /\ grainReadPos[g].f < One
          /\ 0 <= grainPhase[g] /\ grainPhase[g] < GrainSize
    /\ 0 <= ringUse.posLow /\ ringUse.posHigh < BufSize
    /\ 0 <= ringUse.idxLow /\ ringUse.idxHigh < BufSize
    /\ 0 <= ringUse.phaseLow /\ ringUse.phaseHigh < GrainSize

\* the writer went around the ring and grains were reset while the ratio
\* was above 1; a grain reads behind the writer across the end of the buffer
C29_Witness ==
    /\ wCalls > BufSize \div BlockSize
    /\ wPitchRatio > One
    /\ ringUse.resets > NumGrains
    /\ ringUse.idxHigh = BufSize - 1
    /\ ringUse.writeHigh = BufSize - 1
    /\ ringUse.phaseHigh = GrainSize - 1
    /\ \E g \in 1..NumGrains : grainReadPos[g].i > inputWritePos

\* C30 as stated: for effective pitch ratios within [0.5, 2.0] a grain
\* never reads ahead of the writer: from construction on and between any
\* two resets, the slot of its read position and the following slot used
\* for interpolation were written at or before the current input sample.
C30_NeverReadsAhead ==
    /\ ringUse.lead <= 0 /\ ringUse.leadNext <= 0
    /\ ringUse.leadReset <= 0 /\ ringUse.leadNextReset <= 0

====
